---- MODULE Spec2Model ----
(***************************************************************************)
(* Model of the App Store Connect client's core pipeline:                  *)
(*   - Auth (rust/src/auth.rs): the JWT cache behind a tokio RwLock,        *)
(*     get_token / generate_token / refresh_token, step by step, for        *)
(*     several concurrent callers and a wall clock that advances between    *)
(*     their steps;                                                         *)
(*   - BaseAPI (rust/src/base.rs): request, handle_response and             *)
(*     extract_error_message, and the get_all_pages loop on top of them;    *)
(*   - Auth::new / Client::new: construction from a private-key file.       *)
(***************************************************************************)
EXTENDS Integers, Sequences, FiniteSets, TLC

(* ------------------------------ bounds --------------------------------- *)
\* number of concurrent callers sharing one Auth
NumCallers == 2
\* number of clock advances in one behaviour
MaxTicks == 2
\* number of calls (get_token, refresh_token, request) started in one behaviour
MaxCalls == 4

\* longest `errors` array of a response body
MaxErrors == 2

\* number of pages get_all_pages fetches before the model stops following it
MaxPages == 3
\* calls begun by the tasks that share the cache and send requests at once
MaxShared == 2

Callers == 1..NumCallers

\* the amounts by which the wall clock (seconds) advances between two steps
Durations == {1, 31, 1139}

(* ------------------------- program constants --------------------------- *)
\* auth.rs:76  `now < (expiry - 60)`
SafetyMargin == 60
\* auth.rs:86, auth.rs:95, auth.rs:149  `20 * 60`, Duration::minutes(20)
TokenLifetime == 1200
\* auth.rs:101
Audience == "appstoreconnect-v1"

VARIABLES
    clock,        \* Utc::now().timestamp(), seconds
    ticks,        \* clock advances so far
    calls,        \* calls started so far
    credential,   \* Auth.key_id, Auth.issuer_id, Auth.private_key
    token_cache,  \* Auth.token_cache: Option<(String, i64)>
    readers,      \* callers holding the RwLock's read guard
    writer,       \* caller holding the RwLock's write guard, 0 if none
    signs,        \* signatures made so far (the ECDSA nonce of the latest one)
    pc,           \* each caller's position
    op,           \* the entry point each caller is running
    now,          \* each caller's local `now`
    seen,         \* the cache entry a get_token caller found under the read guard
    token,        \* each caller's local `token`
    last          \* the most recent return of get_token / refresh_token: who
                  \* returned, what, and the clock at that instant

VARIABLES
    sent,         \* transport requests issued by the request in progress
    response,     \* the response the transport delivered to that request
    result        \* what BaseAPI::request returned

VARIABLES
    page_args,        \* the arguments of the get_all_pages call in progress
    all_results,      \* get_all_pages: all_results
    current_params,   \* get_all_pages: current_params
    current_endpoint, \* get_all_pages: current_endpoint
    fetched,          \* the GETs that call handed to the transport, in order
    gets,             \* what each self.get(..) of that call returned, in order
    pages_result      \* what get_all_pages returned

VARIABLES
    key_path,         \* the private_key_path given to Auth::new
    constructed,      \* what Auth::new / Client::new / Client::from_env returned
    env,              \* the process environment: the (name, value) pairs set
    env_prefix        \* the prefix from_env_with_prefix was called with

VARIABLES
    localizations,      \* bulk_update: the input entries the loop has yet to take
    existing,           \* bulk_update: what get_all returned
    existing_by_locale, \* bulk_update: existing_by_locale, locale -> id
    bulk_results,       \* bulk_update: results, locale -> outcome
    bulk_locale,        \* bulk_update: the loop's locale
    bulk_stage,         \* bulk_update: the call it is waiting for
    bulk_calls,         \* the get_all, update and create calls it made, in order
    bulk_input,         \* the locales bulk_update was called with
    bulk_result         \* what bulk_update returned

authVars == <<clock, ticks, calls, credential, token_cache, readers, writer,
              signs, pc, op, now, seen, token, last>>

execVars == <<sent, response, result>>

pageVars == <<page_args, all_results, current_params, current_endpoint,
              fetched, gets, pages_result>>

newVars == <<key_path, constructed, env, env_prefix>>

bulkVars == <<localizations, existing, existing_by_locale, bulk_results,
              bulk_locale, bulk_stage, bulk_calls, bulk_input, bulk_result>>

vars == <<authVars, execVars, pageVars, newVars, bulkVars>>

(* ------------------------------ values --------------------------------- *)
None == [kind |-> "None"]
Some(t, e) == [kind |-> "Some", token |-> t, expiry |-> e]

NoToken == [iss |-> "", iat |-> 0, exp |-> 0, aud |-> "", kid |-> "", sig |-> 0]
NoRet == [caller |-> 0, kind |-> "none", path |-> "none", token |-> NoToken,
          now |-> 0, at |-> 0, expiry |-> 0, seen |-> None]

\* struct Claims (auth.rs:9-15)
Claims(iss, iat, exp, aud) == [iss |-> iss, iat |-> iat, exp |-> exp, aud |-> aud]

\* whether ES256 signing accepts the key that EncodingKey::from_ec_pem parsed
KeySigns(key) == key = "ec-p256"

\* jsonwebtoken::encode(&header, &claims, &self.private_key): the token string
\* is determined by the header's kid, the claims and the signature, which
\* differs from one signing to the next (nonce); Err when the key is refused.
Encode(kid, claims, key, nonce) ==
    IF KeySigns(key)
    THEN [kind |-> "Ok",
          token |-> [iss |-> claims.iss, iat |-> claims.iat, exp |-> claims.exp,
                     aud |-> claims.aud, kid |-> kid, sig |-> nonce]]
    ELSE [kind |-> "Authentication", token |-> NoToken]

\* generate_token with the lifetime taken as 20 seconds instead of 20 minutes
generate_token_seconds(cred, t, nonce) ==
    Encode(cred.key_id, Claims(cred.issuer_id, t, t + 20, Audience),
           cred.private_key, nonce)

\* Auth::generate_token at clock reading t
generate_token(cred, t, nonce) ==
    Encode(cred.key_id,
           Claims(cred.issuer_id, t, t + TokenLifetime, Audience),
           cred.private_key, nonce)

\* the cache test with the whole lifetime subtracted instead of the margin
CacheHitLifetime(cache, n) ==
    /\ cache.kind = "Some"
    /\ n < cache.expiry - TokenLifetime

\* the cache test without the margin
CacheHitNoMargin(cache, n) ==
    /\ cache.kind = "Some"
    /\ n < cache.expiry

\* get_token's cache test
CacheHit(cache, n) ==
    /\ cache.kind = "Some"
    /\ n < cache.expiry - SafetyMargin

\* the expiry get_token and refresh_token record beside the token
RecordedExpiry(n) == n + TokenLifetime

(* --------------------------- JSON and bodies --------------------------- *)
\* serde_json::Value, as far as the executor looks into it
Absent == [t |-> "absent"]
JNull == [t |-> "null"]
JNum == [t |-> "number"]
JStr(str) == [t |-> "string", s |-> str]
JArr(items) == [t |-> "array", items |-> items]
JObj(errors, data) == [t |-> "object", errors |-> errors, data |-> data]

\* Value::Object(serde_json::Map::new())
EmptyObject == JObj(Absent, Absent)

\* the members of one element of `errors` that struct ApiError reads
ErrorEntries ==
    [title : {Absent, JNull, JStr("App not found")},
     detail : {Absent, JStr("The resource does not exist")},
     code : {Absent, JStr("NOT_FOUND"), JNum}]

SeqsUpTo(S, n) == UNION {[1..k -> S] : k \in 0..n}

JsonDocs ==
    {JObj(JArr(es), Absent) : es \in SeqsUpTo(ErrorEntries, MaxErrors)}
    \cup {EmptyObject,
          JObj(Absent, JArr(<<JStr("app-1")>>)),
          JObj(JStr("not an array"), Absent),
          JArr(<<>>),
          JNum}

\* the response text: empty, text that is not JSON, or the text of a document;
\* "unreadable" stands for response.text() failing
Bodies ==
    {[kind |-> "empty"], [kind |-> "invalid"]}
    \cup {[kind |-> "json", doc |-> d] : d \in JsonDocs}

Unreadable == [kind |-> "unreadable"]

\* reqwest::StatusCode values of the match in handle_response
OK == 200
CREATED == 201
NO_CONTENT == 204
UNAUTHORIZED == 401
FORBIDDEN == 403
NOT_FOUND == 404
CONFLICT == 409
UNPROCESSABLE_ENTITY == 422
TOO_MANY_REQUESTS == 429

Statuses ==
    {OK, CREATED, NO_CONTENT, UNAUTHORIZED, FORBIDDEN, NOT_FOUND, CONFLICT,
     UNPROCESSABLE_ENTITY, TOO_MANY_REQUESTS, 202, 400, 500}

\* Display of StatusCode: the code and its canonical reason
StatusText(status) ==
    CASE status = 200 -> "200 OK"
      [] status = 201 -> "201 Created"
      [] status = 202 -> "202 Accepted"
      [] status = 204 -> "204 No Content"
      [] status = 400 -> "400 Bad Request"
      [] status = 401 -> "401 Unauthorized"
      [] status = 403 -> "403 Forbidden"
      [] status = 404 -> "404 Not Found"
      [] status = 409 -> "409 Conflict"
      [] status = 422 -> "422 Unprocessable Entity"
      [] status = 429 -> "429 Too Many Requests"
      [] status = 500 -> "500 Internal Server Error"
      [] OTHER -> "<unknown status code>"

Responses ==
    {[status |-> st, body |-> b] : st \in Statuses, b \in Bodies \cup {Unreadable}}

NoResponse == [status |-> 0, body |-> [kind |-> "none"]]

\* Result<Value, AppStoreConnectError>; a message is the sequence of the pieces
\* format! joins
Ok(v) == [kind |-> "Ok", value |-> v, message |-> <<>>]
Err(kind, message) == [kind |-> kind, value |-> JNull, message |-> message]
NoResult == [kind |-> "none", value |-> JNull, message |-> <<>>]

\* Option<String>
NoMsg == [kind |-> "None"]
SomeMsg(str) == [kind |-> "Some", s |-> str]
or_else(a, b) == IF a.kind = "Some" THEN a ELSE b
unwrap_or_else(a, default) == IF a.kind = "Some" THEN a.s ELSE default

\* serde_json::from_str::<Value>(&response_text)
from_str_Value(body) ==
    IF body.kind = "json" THEN Ok(body.doc)
    ELSE Err("Json", <<"JSON parsing failed">>)

\* an Option<String> member of ApiError: absent and null give None, a string
\* gives Some, any other type fails the whole parse
OptionString(v) == IF v.t = "string" THEN SomeMsg(v.s) ELSE NoMsg
IsOptionString(v) == v.t \in {"absent", "null", "string"}

\* serde_json::from_str::<ErrorResponse>(response_text) is Ok
IsErrorResponse(body) ==
    /\ body.kind = "json"
    /\ body.doc.t = "object"
    /\ body.doc.errors.t = "array"
    /\ \A i \in 1..Len(body.doc.errors.items) :
          LET e == body.doc.errors.items[i] IN
              /\ IsOptionString(e.title)
              /\ IsOptionString(e.detail)
              /\ IsOptionString(e.code)

\* extract_error_message preferring detail over title
extract_error_message_detail_first(body) ==
    IF IsErrorResponse(body) /\ Len(body.doc.errors.items) > 0
    THEN LET error == Head(body.doc.errors.items) IN
            or_else(or_else(OptionString(error.detail), OptionString(error.title)),
                    OptionString(error.code))
    ELSE NoMsg

\* extract_error_message reading the last errors entry instead of the first
extract_error_message_last_entry(body) ==
    IF IsErrorResponse(body) /\ Len(body.doc.errors.items) > 0
    THEN LET error == body.doc.errors.items[Len(body.doc.errors.items)] IN
            or_else(or_else(OptionString(error.title), OptionString(error.detail)),
                    OptionString(error.code))
    ELSE NoMsg

\* BaseAPI::extract_error_message
extract_error_message(body) ==
    IF IsErrorResponse(body) /\ Len(body.doc.errors.items) > 0
    THEN LET error == Head(body.doc.errors.items) IN
            or_else(or_else(OptionString(error.title), OptionString(error.detail)),
                    OptionString(error.code))
    ELSE NoMsg

\* the success arm without the empty-body test
OnSuccessAlwaysParses(body) == from_str_Value(body)

\* the arms of the match in handle_response
\* StatusCode::OK | StatusCode::CREATED
OnSuccess(body) ==
    IF body.kind = "empty" THEN Ok(EmptyObject) ELSE from_str_Value(body)

\* StatusCode::NO_CONTENT
OnNoContent(body) == Ok(EmptyObject)

\* StatusCode::UNAUTHORIZED
OnUnauthorized(body) ==
    Err("Api", <<"Authentication failed. Check your credentials.">>)

\* StatusCode::FORBIDDEN
OnForbidden(body) == Err("Api", <<"Forbidden. Check your permissions.">>)

\* StatusCode::NOT_FOUND
OnNotFound(body) ==
    Err("NotFound",
        <<unwrap_or_else(extract_error_message(body), "Resource not found")>>)

\* StatusCode::CONFLICT
OnConflict(body) ==
    Err("Conflict",
        <<unwrap_or_else(extract_error_message(body), "Conflict occurred")>>)

\* the 422 arm with the 409 arm's fallback text
OnUnprocessableConflictText(body) ==
    Err("Validation",
        <<unwrap_or_else(extract_error_message(body), "Conflict occurred")>>)

\* StatusCode::UNPROCESSABLE_ENTITY
OnUnprocessable(body) ==
    Err("Validation",
        <<unwrap_or_else(extract_error_message(body), "Validation failed")>>)

\* the 429 arm taking its message from the body like its neighbours
OnTooManyRequestsFromBody(body) ==
    Err("RateLimit",
        <<unwrap_or_else(extract_error_message(body),
                         "API rate limit exceeded. Please wait before retrying.")>>)

\* StatusCode::TOO_MANY_REQUESTS
OnTooManyRequests(body) ==
    Err("RateLimit", <<"API rate limit exceeded. Please wait before retrying.">>)

\* the catch-all arm leaving the status out of its message
OnOtherStatusNoCode(status, body) ==
    Err("Api",
        <<"API request failed: ",
          unwrap_or_else(extract_error_message(body), "Unknown error")>>)

\* _
OnOtherStatus(status, body) ==
    Err("Api",
        <<"API request failed with status ", StatusText(status), ": ",
          unwrap_or_else(extract_error_message(body), "Unknown error")>>)

\* BaseAPI::handle_response: the body is read as text first, then the match
handle_response(status, body) ==
    IF body.kind = "unreadable"
    THEN Err("Http", <<"HTTP request failed">>)
    ELSE CASE status \in {OK, CREATED} -> OnSuccess(body)
           [] status = NO_CONTENT -> OnNoContent(body)
           [] status = UNAUTHORIZED -> OnUnauthorized(body)
           [] status = FORBIDDEN -> OnForbidden(body)
           [] status = NOT_FOUND -> OnNotFound(body)
           [] status = CONFLICT -> OnConflict(body)
           [] status = UNPROCESSABLE_ENTITY -> OnUnprocessable(body)
           [] status = TOO_MANY_REQUESTS -> OnTooManyRequests(body)
           [] OTHER -> OnOtherStatus(status, body)

\* self.base_url.join(endpoint) is Ok
Endpoints == {"apps", "//[bad"}
UrlJoins(endpoint) == endpoint # "//[bad"

(* ------------------------- get_all_pages values ------------------------ *)
\* Option<HashMap<String, String>>; a map is the set of its (key, value) pairs
NoParams == [kind |-> "None", map |-> {}]
SomeParams(m) == [kind |-> "Some", map |-> m]
unwrap_or_default(params) == IF params.kind = "Some" THEN params.map ELSE {}

\* HashMap::insert: the entry replaces the one the key had
insert(m, k, v) == {kv \in m : kv[1] # k} \cup {<<k, v>>}

\* Option<u32>
NoLimit == [kind |-> "None", n |-> 0]
SomeLimit(n) == [kind |-> "Some", n |-> n]

\* u32::min
min(a, b) == IF a <= b THEN a ELSE b

\* base.rs:191  `limit.min(200)`
PageSizeCap == 200

\* the arguments callers pass to get_all_pages
ParamArgs ==
    {NoParams, SomeParams({}),
     SomeParams({<<"limit", "500">>, <<"filter[platform]", "IOS">>})}
LimitArgs == {NoLimit, SomeLimit(1), SomeLimit(500)}

\* the values of links.next: a URL under /v1/, one whose query has a key
\* twice, text that is no absolute URL, and a URL whose path, once "/v1/" is
\* trimmed, does not join the base URL
GoodLink == "https://api.appstoreconnect.apple.com/v1/apps?cursor=p2&limit=1"
RepeatedKeyLink ==
    "https://api.appstoreconnect.apple.com/v1/apps?include=a&cursor=p3&include=b"
NotAUrl == "apps?cursor=p2"
BadJoinLink == "https://api.appstoreconnect.apple.com/v1///[bad"
NextLinks == {GoodLink, RepeatedKeyLink, NotAUrl, BadJoinLink}

\* Url::parse(next_url): whether it is Ok, and the path and query pairs of the URL
Url_parse(str) ==
    CASE str = GoodLink ->
            [ok |-> TRUE, path |-> "/v1/apps",
             query |-> <<(<<"cursor", "p2">>), (<<"limit", "1">>)>>]
      [] str = RepeatedKeyLink ->
            [ok |-> TRUE, path |-> "/v1/apps",
             query |-> <<(<<"include", "a">>), (<<"cursor", "p3">>),
                         (<<"include", "b">>)>>]
      [] str = BadJoinLink ->
            [ok |-> TRUE, path |-> "/v1///[bad", query |-> <<>>]
      [] OTHER -> [ok |-> FALSE, path |-> "", query |-> <<>>]

\* url.path().trim_start_matches("/v1/")
trim_start_matches_v1(path) ==
    CASE path = "/v1/apps" -> "apps"
      [] path = "/v1///[bad" -> "//[bad"
      [] OTHER -> path

\* current_params.clear(); for (key, value) in url.query_pairs() { insert }
RECURSIVE insert_all(_, _)
insert_all(m, pairs) ==
    IF pairs = <<>> THEN m
    ELSE insert_all(insert(m, Head(pairs)[1], Head(pairs)[2]), Tail(pairs))

\* Value::get(key): None (absent) unless the value is an object with the member
get(v, key) == IF v.t = "object" /\ key \in DOMAIN v THEN v[key] ELSE Absent

\* the documents of a collection page: {"data": .., "links": {"next": ..}}
JPage(data, links) ==
    [t |-> "object", errors |-> Absent, data |-> data, links |-> links]
JLinks(next) == [t |-> "object", next |-> next]

PageData ==
    {Absent, JStr("not an array"), JArr(<<JStr("app-1")>>),
     JArr(<<JStr("app-2"), JStr("app-1")>>)}
PageLinks ==
    {Absent, JNum, JLinks(Absent), JLinks(JNum)}
    \cup {JLinks(JStr(l)) : l \in NextLinks}
PageDocs == {JPage(d, l) : d \in PageData, l \in PageLinks}

\* what the server may answer to a GET of get_all_pages
PageResponses ==
    {[status |-> OK, body |-> [kind |-> "json", doc |-> d]] : d \in PageDocs}
    \cup {[status |-> OK, body |-> [kind |-> "empty"]],
          [status |-> OK, body |-> [kind |-> "invalid"]],
          [status |-> OK, body |-> [kind |-> "json", doc |-> JNum]],
          [status |-> NO_CONTENT, body |-> [kind |-> "empty"]],
          [status |-> TOO_MANY_REQUESTS, body |-> [kind |-> "empty"]],
          [status |-> 500, body |-> [kind |-> "invalid"]]}

\* the page size sent as it was asked for, without the cap
page_size_uncapped(limit) ==
    IF limit.kind = "Some" THEN ToString(limit.n) ELSE "200"

\* the value get_all_pages puts under "limit": limit.min(200).to_string(), or "200"
page_size(limit) ==
    IF limit.kind = "Some" THEN ToString(min(limit.n, PageSizeCap)) ELSE "200"

\* the page's items put in front of the accumulated ones
extend_front(results, resp) ==
    LET data == get(resp, "data") IN
        IF data.t = "array" THEN data.items \o results ELSE results

\* a data member that is no array pushed as one item
extend_with_value(results, resp) ==
    LET data == get(resp, "data") IN
        IF data.t = "array" THEN results \o data.items
        ELSE IF data.t # "absent" THEN Append(results, data)
        ELSE results

\* if let Some(data) = response.get("data").and_then(|d| d.as_array())
\*     { all_results.extend(data.iter().cloned()); }
extend(results, resp) ==
    LET data == get(resp, "data") IN
        IF data.t = "array" THEN results \o data.items ELSE results

\* what the loop does after a page: follow links.next to an endpoint and
\* params, or break
Break == [kind |-> "break", endpoint |-> "", params |-> {}]
Follow(endpoint, params) ==
    [kind |-> "follow", endpoint |-> endpoint, params |-> params]

\* the link's query pairs inserted over the parameters of the request before
next_page_merging(resp) ==
    LET links == get(resp, "links")
        next_url == get(links, "next")
    IN  IF links.t = "object" /\ next_url.t = "string"
        THEN LET url == Url_parse(next_url.s) IN
                IF url.ok
                THEN Follow(trim_start_matches_v1(url.path),
                            insert_all(current_params, url.query))
                ELSE Break
        ELSE Break

\* a page without a next link followed by one more request of the collection
next_page_without_break(resp) ==
    LET links == get(resp, "links")
        next_url == get(links, "next")
    IN  IF links.t = "object" /\ next_url.t = "string" /\ Url_parse(next_url.s).ok
        THEN LET url == Url_parse(next_url.s) IN
                Follow(trim_start_matches_v1(url.path), insert_all({}, url.query))
        ELSE Follow("apps", {})

\* a next link that is no URL taken as the next endpoint as it stands
next_page_follows_text(resp) ==
    LET links == get(resp, "links")
        next_url == get(links, "next")
    IN  IF links.t = "object" /\ next_url.t = "string"
        THEN LET url == Url_parse(next_url.s) IN
                IF url.ok
                THEN Follow(trim_start_matches_v1(url.path), insert_all({}, url.query))
                ELSE Follow("apps", {})
        ELSE Break

\* links.next as an object member that is a string that parses as a URL
next_page(resp) ==
    LET links == get(resp, "links")
        next_url == get(links, "next")
    IN  IF links.t = "object" /\ next_url.t = "string"
        THEN LET url == Url_parse(next_url.s) IN
                IF url.ok
                THEN Follow(trim_start_matches_v1(url.path), insert_all({}, url.query))
                ELSE Break
        ELSE Break

\* Result<Vec<Value>, AppStoreConnectError>
OkItems(items) == [kind |-> "Ok", items |-> items, message |-> <<>>]
ErrItems(kind, message) == [kind |-> kind, items |-> <<>>, message |-> message]
NoPages == [kind |-> "none", items |-> <<>>, message |-> <<>>]
NoPageArgs == [endpoint |-> "", params |-> NoParams, limit |-> NoLimit]

\* a failed fetch ending the call with the items of the pages before it
propagate_partial(r, results) == OkItems(results)

\* `?` on the Err that get returned
propagate(r, results) == ErrItems(r.kind, r.message)

(* ---------------------- LocalizationsAPI values ------------------------ *)
\* the locales of the localizations map bulk_update is given; the attributes
\* given with a locale go into the request body
Locales == {"en-US", "fr-FR"}

\* an appInfoLocalizations resource: {"id": .., "attributes": {"locale": ..}}
Localization(id, locale) ==
    [t |-> "object", id |-> id,
     attributes |-> [t |-> "object", locale |-> locale]]

\* the data arrays the listing may carry: no entry, an entry for en-US, and
\* with it an entry for fr-FR that has an id or has none
Listings ==
    {<<>>,
     <<Localization(JStr("loc-en"), JStr("en-US"))>>,
     <<Localization(JStr("loc-en"), JStr("en-US")),
       Localization(JStr("loc-fr"), JStr("fr-FR"))>>,
     <<Localization(JStr("loc-en"), JStr("en-US")),
       Localization(Absent, JStr("fr-FR"))>>}

\* what the server may answer to a request of bulk_update: a collection
\* document, a single-resource document, an object without data, an error
BulkResponses ==
    {[status |-> OK, body |-> [kind |-> "json", doc |-> JObj(Absent, JArr(l))]] :
        l \in Listings}
    \cup {[status |-> st,
           body |-> [kind |-> "json",
                     doc |-> JObj(Absent, Localization(JStr("loc-new"),
                                                       JStr("en-US")))]] :
            st \in {OK, CREATED}}
    \cup {[status |-> OK, body |-> [kind |-> "json", doc |-> EmptyObject]],
          [status |-> CONFLICT, body |-> [kind |-> "empty"]],
          [status |-> 500, body |-> [kind |-> "invalid"]]}

\* get_all: `?` on the fetch, then the data array, or an empty Vec
get_all(r) ==
    IF r.kind # "Ok" THEN ErrItems(r.kind, r.message)
    ELSE LET data == get(r.value, "data") IN
            IF data.t = "array" THEN OkItems(data.items) ELSE OkItems(<<>>)

\* HashMap::get
lookup(m, k) == CHOOSE v \in {kv[2] : kv \in {e \in m : e[1] = k}} : TRUE
contains_key(m, k) == \E kv \in m : kv[1] = k

\* every entry with a string attributes.locale indexed, the id taken as ""
\* when the entry has none
RECURSIVE existing_by_locale_any_id(_, _)
existing_by_locale_any_id(m, locs) ==
    IF locs = <<>> THEN m
    ELSE LET loc == Head(locs)
             locale == get(get(loc, "attributes"), "locale")
             id == get(loc, "id")
         IN  existing_by_locale_any_id(
                 IF locale.t = "string"
                 THEN insert(m, locale.s, IF id.t = "string" THEN id.s ELSE "")
                 ELSE m,
                 Tail(locs))

\* for loc in existing { if let (Some(locale), Some(id)) = (.., ..)
\*     { existing_by_locale.insert(locale.to_string(), (id.to_string(), loc)); } }
RECURSIVE index_by_locale(_, _)
index_by_locale(m, locs) ==
    IF locs = <<>> THEN m
    ELSE LET loc == Head(locs)
             locale == get(get(loc, "attributes"), "locale")
             id == get(loc, "id")
         IN  index_by_locale(
                 IF locale.t = "string" /\ id.t = "string"
                 THEN insert(m, locale.s, id.s)
                 ELSE m,
                 Tail(locs))

\* update, create: `?` on the request, then
\* response.get("data").cloned().ok_or_else(|| Api "Invalid response format")
data_or_invalid(r) ==
    IF r.kind # "Ok" THEN r
    ELSE LET data == get(r.value, "data") IN
            IF data.t # "absent" THEN Ok(data)
            ELSE Err("Api", <<"Invalid response format">>)

\* Display of AppStoreConnectError (error.rs): the variant's text, and for
\* the variants that wrap an error struct that struct's text after it
to_string(e) ==
    << CASE e.kind = "Authentication" ->
                "Authentication failed: Authentication failed: "
         [] e.kind = "RateLimit" -> "Rate limit exceeded: Rate limit exceeded: "
         [] e.kind = "NotFound" -> "Resource not found: Resource not found: "
         [] e.kind = "Validation" -> "Validation failed: Validation failed: "
         [] e.kind = "Conflict" -> "Conflict occurred: Conflict occurred: "
         [] e.kind = "Http" -> "HTTP request failed: "
         [] e.kind = "Json" -> "JSON parsing failed: "
         [] e.kind = "Api" -> "API error: "
         [] OTHER -> "Unknown error: " >> \o e.message

\* json!({"success": true, "action": .., "data": data}) or
\* json!({"success": false, "error": e.to_string()})
outcome(action, r) ==
    IF r.kind = "Ok"
    THEN [success |-> TRUE, action |-> action, data |-> r.value]
    ELSE [success |-> FALSE, error |-> to_string(r)]

\* Result<HashMap<String, Value>, AppStoreConnectError>
OkResults(m) == [kind |-> "Ok", results |-> m, message |-> <<>>]
ErrResults(kind, message) == [kind |-> kind, results |-> {}, message |-> message]
NoBulk == [kind |-> "none", results |-> {}, message |-> <<>>]

\* no bulk_update call has been made
BulkIdle ==
    /\ localizations = {}
    /\ existing = <<>>
    /\ existing_by_locale = {}
    /\ bulk_results = {}
    /\ bulk_locale = ""
    /\ bulk_stage = "none"
    /\ bulk_calls = <<>>
    /\ bulk_input = {}
    /\ bulk_result = NoBulk

(* ----------------------------- Auth::new ------------------------------ *)
\* the paths construction is tried with: no such file, a directory (it
\* exists and cannot be read as a string), a file with a truncated PEM, and
\* files holding a P-256 and a P-384 EC private key
KeyPaths ==
    {"missing.p8", "keys/", "truncated.p8", "AuthKey.p8", "AuthKey_p384.p8"}

\* private_key_path.exists()
path_exists(path) == path # "missing.p8"

\* tokio::fs::read_to_string(private_key_path)
read_to_string(path) ==
    CASE path = "AuthKey.p8" -> [kind |-> "Ok", content |-> "ec-p256"]
      [] path = "AuthKey_p384.p8" -> [kind |-> "Ok", content |-> "ec-p384"]
      [] path = "truncated.p8" -> [kind |-> "Ok", content |-> "truncated-pem"]
      [] OTHER -> [kind |-> "Io", content |-> ""]

\* EncodingKey::from_ec_pem(content): the key, or Err for what is no EC PEM
from_ec_pem(content) ==
    IF content \in {"ec-p256", "ec-p384"}
    THEN [kind |-> "Ok", key |-> content]
    ELSE [kind |-> "InvalidKeyFormat", key |-> "none"]

NoCredential == [key_id |-> "", issuer_id |-> "", private_key |-> "none"]

\* Result<Auth, AppStoreConnectError>
NewOk(cred) == [kind |-> "Ok", message |-> <<>>, auth |-> cred]
NewErr(kind, message) == [kind |-> kind, message |-> message, auth |-> NoCredential]

\* Auth::new with the read failure passed on as the Io error it was
Auth_new_io(key_id, issuer_id, path) ==
    IF ~path_exists(path)
    THEN NewErr("Authentication", <<"Private key file not found: ", path>>)
    ELSE LET private_key_content == read_to_string(path) IN
         IF private_key_content.kind # "Ok"
         THEN NewErr("Io", <<"IO error">>)
         ELSE LET private_key == from_ec_pem(private_key_content.content) IN
              IF private_key.kind # "Ok"
              THEN NewErr("Authentication", <<"Failed to parse private key: ",
                                              private_key.kind>>)
              ELSE NewOk([key_id |-> key_id, issuer_id |-> issuer_id,
                          private_key |-> private_key.key])

\* Auth::new
Auth_new(key_id, issuer_id, path) ==
    IF ~path_exists(path)
    THEN NewErr("Authentication", <<"Private key file not found: ", path>>)
    ELSE LET private_key_content == read_to_string(path) IN
         IF private_key_content.kind # "Ok"
         THEN NewErr("Authentication", <<"Failed to read private key file: ",
                                         private_key_content.kind>>)
         ELSE LET private_key == from_ec_pem(private_key_content.content) IN
              IF private_key.kind # "Ok"
              THEN NewErr("Authentication", <<"Failed to parse private key: ",
                                              private_key.kind>>)
              ELSE NewOk([key_id |-> key_id, issuer_id |-> issuer_id,
                          private_key |-> private_key.key])

(* ------------------------------- Init ---------------------------------- *)
\* the Auth values construction can return
Credentials ==
    {[key_id |-> "KEY1", issuer_id |-> "ISSUER1", private_key |-> k] :
        k \in {"ec-p256", "ec-p384"}}

Init ==
    /\ clock = 0
    /\ ticks = 0
    /\ calls = 0
    /\ credential \in Credentials
    /\ token_cache = None
    /\ readers = {}
    /\ writer = 0
    /\ signs = 0
    /\ pc = [p \in Callers |-> "idle"]
    /\ op = [p \in Callers |-> "none"]
    /\ now = [p \in Callers |-> 0]
    /\ seen = [p \in Callers |-> None]
    /\ token = [p \in Callers |-> NoToken]
    /\ last = NoRet
    /\ sent = 0
    /\ response = NoResponse
    /\ result = NoResult
    /\ page_args = NoPageArgs
    /\ all_results = <<>>
    /\ current_params = {}
    /\ current_endpoint = ""
    /\ fetched = <<>>
    /\ gets = <<>>
    /\ pages_result = NoPages
    /\ key_path \in {path \in KeyPaths :
                        Auth_new("KEY1", "ISSUER1", path) = NewOk(credential)}
    /\ constructed = [kind |-> "Ok", message |-> <<>>]
    /\ env = {}
    /\ env_prefix = ""
    /\ BulkIdle

(* ------------------------------ the clock ------------------------------ *)
Tick ==
    /\ UNCHANGED <<execVars, pageVars, newVars, bulkVars>>
    /\ ticks < MaxTicks
    /\ \E d \in Durations : clock' = clock + d
    /\ ticks' = ticks + 1
    /\ UNCHANGED <<calls, credential, token_cache, readers, writer, signs,
                   pc, op, now, seen, token, last>>

(* ------------------------------ get_token ------------------------------ *)
\* caller p is inside BaseAPI::request, called directly or by get_all_pages
InRequest(p) == op[p] \in {"request", "get_all_pages", "bulk_update"}

\* what get_token's caller does with the result: a direct caller is done;
\* request (through Auth::headers) goes on to send with the token, or fails
Returned(p, ok, t) ==
    /\ pc' = [pc EXCEPT ![p] =
                 IF InRequest(p) THEN (IF ok THEN "rq_send" ELSE "rq_fail")
                 ELSE "idle"]
    /\ op' = [op EXCEPT ![p] = IF InRequest(p) THEN op[p] ELSE "none"]
    /\ token' = [token EXCEPT ![p] = IF InRequest(p) /\ ok THEN t ELSE NoToken]
    /\ now' = [now EXCEPT ![p] = 0]
    /\ seen' = [seen EXCEPT ![p] = None]

\* let now = Utc::now().timestamp();
GetTokenStart(p) ==
    /\ UNCHANGED <<execVars, pageVars, newVars, bulkVars>>
    /\ \/ /\ pc[p] = "idle"
          /\ calls < MaxCalls
          /\ calls' = calls + 1
          /\ op' = [op EXCEPT ![p] = "get_token"]
       \/ /\ pc[p] = "rq_headers"
          /\ UNCHANGED <<calls, op>>
    /\ now' = [now EXCEPT ![p] = clock]
    /\ pc' = [pc EXCEPT ![p] = "gt_read"]
    /\ UNCHANGED <<clock, ticks, credential, token_cache, readers, writer,
                   signs, seen, token, last>>

\* let cache = self.token_cache.read().await;
GetTokenReadLock(p) ==
    /\ UNCHANGED <<execVars, pageVars, newVars, bulkVars>>
    /\ pc[p] = "gt_read"
    /\ writer = 0
    /\ readers' = readers \cup {p}
    /\ pc' = [pc EXCEPT ![p] = "gt_check"]
    /\ UNCHANGED <<clock, ticks, calls, credential, token_cache, writer, signs,
                   op, now, seen, token, last>>

\* the cache test with the read guard still alive when the miss path goes on
\* to sign and to ask for the write guard (no inner block around the read)
GetTokenCheckKeepsGuard(p) ==
    /\ UNCHANGED <<execVars, pageVars, newVars, bulkVars>>
    /\ pc[p] = "gt_check"
    /\ \/ /\ CacheHit(token_cache, now[p])
          /\ readers' = readers \ {p}
          /\ last' = [caller |-> p, kind |-> "Ok", path |-> "hit",
                      token |-> token_cache.token, now |-> now[p],
                      at |-> clock, expiry |-> token_cache.expiry,
                      seen |-> token_cache]
          /\ Returned(p, TRUE, token_cache.token)
       \/ /\ ~CacheHit(token_cache, now[p])
          /\ seen' = [seen EXCEPT ![p] = token_cache]
          /\ pc' = [pc EXCEPT ![p] = "gt_sign"]
          /\ UNCHANGED <<last, op, now, token, readers>>
    /\ UNCHANGED <<clock, ticks, calls, credential, token_cache, writer, signs>>

\* the test under the read guard; the guard is dropped at the return (hit) or
\* at the end of the block (miss)
GetTokenCheck(p) ==
    /\ UNCHANGED <<execVars, pageVars, newVars, bulkVars>>
    /\ pc[p] = "gt_check"
    /\ readers' = readers \ {p}
    /\ \/ /\ CacheHit(token_cache, now[p])
          /\ last' = [caller |-> p, kind |-> "Ok", path |-> "hit",
                      token |-> token_cache.token, now |-> now[p],
                      at |-> clock, expiry |-> token_cache.expiry,
                      seen |-> token_cache]
          /\ Returned(p, TRUE, token_cache.token)
       \/ /\ ~CacheHit(token_cache, now[p])
          /\ seen' = [seen EXCEPT ![p] = token_cache]
          /\ pc' = [pc EXCEPT ![p] = "gt_sign"]
          /\ UNCHANGED <<last, op, now, token>>
    /\ UNCHANGED <<clock, ticks, calls, credential, token_cache, writer, signs>>

\* let token = self.generate_token().await?;
GetTokenSign(p) ==
    /\ UNCHANGED <<execVars, pageVars, newVars, bulkVars>>
    /\ pc[p] = "gt_sign"
    /\ LET r == generate_token(credential, clock, signs + 1) IN
        IF r.kind = "Ok"
        THEN /\ signs' = signs + 1
             /\ token' = [token EXCEPT ![p] = r.token]
             /\ pc' = [pc EXCEPT ![p] = "gt_write"]
             /\ UNCHANGED <<last, op, now, seen>>
        ELSE /\ last' = [NoRet EXCEPT !.caller = p, !.kind = r.kind,
                                      !.path = "miss", !.now = now[p],
                                      !.at = clock, !.seen = seen[p]]
             /\ Returned(p, FALSE, NoToken)
             /\ UNCHANGED signs
    /\ UNCHANGED <<clock, ticks, calls, credential, token_cache, readers, writer>>

\* let mut cache = self.token_cache.write().await;
GetTokenWriteLock(p) ==
    /\ UNCHANGED <<execVars, pageVars, newVars, bulkVars>>
    /\ pc[p] = "gt_write"
    /\ writer = 0
    /\ readers = {}
    /\ writer' = p
    /\ pc' = [pc EXCEPT ![p] = "gt_store"]
    /\ UNCHANGED <<clock, ticks, calls, credential, token_cache, readers, signs,
                   op, now, seen, token, last>>

\* the replace step with the write guard kept alive until the caller is done
GetTokenStoreKeepsGuard(p) ==
    /\ UNCHANGED <<execVars, pageVars, newVars, bulkVars>>
    /\ pc[p] = "gt_store"
    /\ token_cache' = Some(token[p], RecordedExpiry(now[p]))
    /\ pc' = [pc EXCEPT ![p] = "gt_ret"]
    /\ UNCHANGED <<clock, ticks, calls, credential, readers, writer, signs,
                   op, now, seen, token, last>>

\* let expiry = now + (20 * 60); *cache = Some((token.clone(), expiry));
\* then the write guard is dropped
GetTokenStore(p) ==
    /\ UNCHANGED <<execVars, pageVars, newVars, bulkVars>>
    /\ pc[p] = "gt_store"
    /\ token_cache' = Some(token[p], RecordedExpiry(now[p]))
    /\ writer' = 0
    /\ pc' = [pc EXCEPT ![p] = "gt_ret"]
    /\ UNCHANGED <<clock, ticks, calls, credential, readers, signs,
                   op, now, seen, token, last>>

\* Ok(token)
GetTokenReturn(p) ==
    /\ UNCHANGED <<execVars, pageVars, newVars, bulkVars>>
    /\ pc[p] = "gt_ret"
    /\ last' = [caller |-> p, kind |-> "Ok", path |-> "miss",
                token |-> token[p], now |-> now[p], at |-> clock,
                expiry |-> RecordedExpiry(now[p]), seen |-> seen[p]]
    /\ Returned(p, TRUE, token[p])
    /\ UNCHANGED <<clock, ticks, calls, credential, token_cache, readers,
                   writer, signs>>

(* ---------------------------- refresh_token ---------------------------- *)
\* refresh_token returning Ok at once when the cached token is still good
RefreshSignIfStale(p) ==
    /\ UNCHANGED <<execVars, pageVars, newVars, bulkVars>>
    /\ pc[p] = "idle"
    /\ calls < MaxCalls
    /\ calls' = calls + 1
    /\ IF CacheHit(token_cache, clock)
       THEN /\ last' = [NoRet EXCEPT !.caller = p, !.kind = "Ok",
                                     !.path = "refresh", !.at = clock]
            /\ UNCHANGED <<signs, token, op, pc>>
       ELSE LET r == generate_token(credential, clock, signs + 1) IN
            IF r.kind = "Ok"
            THEN /\ signs' = signs + 1
                 /\ token' = [token EXCEPT ![p] = r.token]
                 /\ op' = [op EXCEPT ![p] = "refresh_token"]
                 /\ pc' = [pc EXCEPT ![p] = "rf_now"]
                 /\ UNCHANGED last
            ELSE /\ last' = [NoRet EXCEPT !.caller = p, !.kind = r.kind,
                                          !.path = "refresh", !.at = clock]
                 /\ UNCHANGED <<signs, token, op, pc>>
    /\ UNCHANGED <<clock, ticks, credential, token_cache, readers, writer,
                   now, seen>>

\* let token = self.generate_token().await?;
RefreshSign(p) ==
    /\ UNCHANGED <<execVars, pageVars, newVars, bulkVars>>
    /\ pc[p] = "idle"
    /\ calls < MaxCalls
    /\ calls' = calls + 1
    /\ LET r == generate_token(credential, clock, signs + 1) IN
        IF r.kind = "Ok"
        THEN /\ signs' = signs + 1
             /\ token' = [token EXCEPT ![p] = r.token]
             /\ op' = [op EXCEPT ![p] = "refresh_token"]
             /\ pc' = [pc EXCEPT ![p] = "rf_now"]
             /\ UNCHANGED last
        ELSE /\ last' = [NoRet EXCEPT !.caller = p, !.kind = r.kind,
                                      !.path = "refresh", !.at = clock]
             /\ UNCHANGED <<signs, token, op, pc>>
    /\ UNCHANGED <<clock, ticks, credential, token_cache, readers, writer,
                   now, seen>>

\* let now = Utc::now().timestamp(); let expiry = now + (20 * 60);
RefreshNow(p) ==
    /\ UNCHANGED <<execVars, pageVars, newVars, bulkVars>>
    /\ pc[p] = "rf_now"
    /\ now' = [now EXCEPT ![p] = clock]
    /\ pc' = [pc EXCEPT ![p] = "rf_write"]
    /\ UNCHANGED <<clock, ticks, calls, credential, token_cache, readers,
                   writer, signs, op, seen, token, last>>

\* let mut cache = self.token_cache.write().await;
RefreshWriteLock(p) ==
    /\ UNCHANGED <<execVars, pageVars, newVars, bulkVars>>
    /\ pc[p] = "rf_write"
    /\ writer = 0
    /\ readers = {}
    /\ writer' = p
    /\ pc' = [pc EXCEPT ![p] = "rf_store"]
    /\ UNCHANGED <<clock, ticks, calls, credential, token_cache, readers, signs,
                   op, now, seen, token, last>>

\* *cache = Some((token, expiry)); Ok(()) and the write guard is dropped
RefreshStore(p) ==
    /\ UNCHANGED <<execVars, pageVars, newVars, bulkVars>>
    /\ pc[p] = "rf_store"
    /\ token_cache' = Some(token[p], RecordedExpiry(now[p]))
    /\ writer' = 0
    /\ last' = [caller |-> p, kind |-> "Ok", path |-> "refresh",
                token |-> token[p], now |-> now[p], at |-> clock,
                expiry |-> RecordedExpiry(now[p]), seen |-> None]
    /\ pc' = [pc EXCEPT ![p] = "idle"]
    /\ op' = [op EXCEPT ![p] = "none"]
    /\ token' = [token EXCEPT ![p] = NoToken]
    /\ now' = [now EXCEPT ![p] = 0]
    /\ UNCHANGED <<clock, ticks, calls, credential, readers, signs, seen>>

(* ---------------------------- is_token_valid --------------------------- *)
\* the validity test with get_token's 60-second margin
is_valid_with_margin(cache, n) ==
    /\ cache.kind = "Some"
    /\ n < cache.expiry - SafetyMargin

\* if let Some((_, expiry)) = cache.as_ref() { now < *expiry } else { false }
is_valid(cache, n) ==
    /\ cache.kind = "Some"
    /\ n < cache.expiry

\* let cache = self.token_cache.read().await;
IsValidReadLock(p) ==
    /\ UNCHANGED <<execVars, pageVars, newVars, bulkVars>>
    /\ pc[p] = "idle"
    /\ calls < MaxCalls
    /\ calls' = calls + 1
    /\ writer = 0
    /\ readers' = readers \cup {p}
    /\ op' = [op EXCEPT ![p] = "is_token_valid"]
    /\ pc' = [pc EXCEPT ![p] = "iv_check"]
    /\ UNCHANGED <<clock, ticks, credential, token_cache, writer, signs,
                   now, seen, token, last>>

\* the clock is read under the read guard; the guard is dropped at the return
IsValidCheck(p) ==
    /\ UNCHANGED <<execVars, pageVars, newVars, bulkVars>>
    /\ pc[p] = "iv_check"
    /\ readers' = readers \ {p}
    /\ last' = [NoRet EXCEPT !.caller = p,
                             !.kind = IF is_valid(token_cache, clock)
                                      THEN "true" ELSE "false",
                             !.path = "is_valid", !.now = clock, !.at = clock,
                             !.seen = token_cache]
    /\ pc' = [pc EXCEPT ![p] = "idle"]
    /\ op' = [op EXCEPT ![p] = "none"]
    /\ UNCHANGED <<clock, ticks, calls, credential, token_cache, writer, signs,
                   now, seen, token>>

(* -------------------------- BaseAPI::request --------------------------- *)
\* the one caller whose requests the executor specification follows
Executors == {1}

\* request returns to its caller: a direct caller is done, get_all_pages and
\* bulk_update go on with the result
AfterRequest(p) ==
    /\ pc' = [pc EXCEPT ![p] = CASE op[p] = "get_all_pages" -> "pg_got"
                                 [] op[p] = "bulk_update" -> "bu_got"
                                 [] OTHER -> "idle"]
    /\ op' = [op EXCEPT ![p] = IF op[p] \in {"get_all_pages", "bulk_update"}
                               THEN op[p] ELSE "none"]

\* let url = self.base_url.join(endpoint).map_err(..)?; then
\* self.auth.headers() calls get_token
RequestStart(p) ==
    /\ UNCHANGED <<pageVars, newVars, bulkVars>>
    /\ pc[p] = "idle"
    /\ calls < MaxCalls
    /\ calls' = calls + 1
    /\ sent' = 0
    /\ response' = NoResponse
    /\ \E endpoint \in Endpoints :
          IF UrlJoins(endpoint)
          THEN /\ pc' = [pc EXCEPT ![p] = "rq_headers"]
               /\ op' = [op EXCEPT ![p] = "request"]
               /\ result' = NoResult
          ELSE /\ result' = Err("Unknown", <<"Invalid endpoint: ", endpoint>>)
               /\ UNCHANGED <<pc, op>>
    /\ UNCHANGED <<clock, ticks, credential, token_cache, readers, writer,
                   signs, now, seen, token, last>>

\* let headers = self.auth.headers().await?;  get_token returned Err
RequestAuthFailed(p) ==
    /\ UNCHANGED <<pageVars, newVars, bulkVars>>
    /\ pc[p] = "rq_fail"
    /\ result' = Err("Authentication", <<"Failed to generate JWT token">>)
    /\ AfterRequest(p)
    /\ UNCHANGED <<clock, ticks, calls, credential, token_cache, readers,
                   writer, signs, now, seen, token, last, sent, response>>

\* let response = request.send().await?;
RequestSend(p) ==
    /\ pc[p] = "rq_send"
    /\ sent' = sent + 1
    /\ fetched' = IF op[p] = "get_all_pages"
                  THEN Append(fetched, [endpoint |-> current_endpoint,
                                        params |-> current_params])
                  ELSE fetched
    /\ UNCHANGED <<page_args, all_results, current_params, current_endpoint,
                   gets, pages_result, newVars, bulkVars>>
    /\ token' = [token EXCEPT ![p] = NoToken]
    /\ \/ /\ result' = Err("Http", <<"HTTP request failed">>)
          /\ AfterRequest(p)
          /\ UNCHANGED response
       \/ /\ \E r \in (CASE op[p] = "get_all_pages" -> PageResponses
                         [] op[p] = "bulk_update" -> BulkResponses
                         [] OTHER -> Responses) :
                response' = r
          /\ pc' = [pc EXCEPT ![p] = "rq_handle"]
          /\ UNCHANGED <<result, op>>
    /\ UNCHANGED <<clock, ticks, calls, credential, token_cache, readers,
                   writer, signs, now, seen, last>>

\* request sending once more after a 429 before giving the answer back
RequestHandleRetries(p) ==
    /\ UNCHANGED <<pageVars, newVars, bulkVars>>
    /\ pc[p] = "rq_handle"
    /\ IF response.status = TOO_MANY_REQUESTS /\ sent < 2
       THEN /\ pc' = [pc EXCEPT ![p] = "rq_send"]
            /\ UNCHANGED <<result, op>>
       ELSE /\ result' = handle_response(response.status, response.body)
            /\ AfterRequest(p)
    /\ UNCHANGED <<clock, ticks, calls, credential, token_cache, readers,
                   writer, signs, now, seen, token, last, sent, response>>

\* self.handle_response(response).await
RequestHandle(p) ==
    /\ UNCHANGED <<pageVars, newVars, bulkVars>>
    /\ pc[p] = "rq_handle"
    /\ result' = handle_response(response.status, response.body)
    /\ AfterRequest(p)
    /\ UNCHANGED <<clock, ticks, calls, credential, token_cache, readers,
                   writer, signs, now, seen, token, last, sent, response>>

(* ---------------------------- cancellation ----------------------------- *)
\* where a call is suspended: token_cache.read().await, token_cache.write().await
\* (get_token, refresh_token), request.send().await and response.text().await
AwaitPoints == {"gt_read", "gt_write", "rf_write", "rq_send", "rq_handle"}

\* the caller's future dropped with the cache written first: the entry is
\* left holding the token the call had signed, without its expiry
CancelMidWrite(p) ==
    /\ UNCHANGED <<pageVars, newVars, bulkVars>>
    /\ pc[p] \in AwaitPoints
    /\ op[p] \in {"get_token", "refresh_token", "request"}
    /\ readers' = readers \ {p}
    /\ writer' = IF writer = p THEN 0 ELSE writer
    /\ token_cache' = IF token[p] # NoToken /\ pc[p] \in {"gt_write", "rf_write"}
                      THEN Some(token[p], 0)
                      ELSE token_cache
    /\ pc' = [pc EXCEPT ![p] = "idle"]
    /\ op' = [op EXCEPT ![p] = "none"]
    /\ now' = [now EXCEPT ![p] = 0]
    /\ seen' = [seen EXCEPT ![p] = None]
    /\ token' = [token EXCEPT ![p] = NoToken]
    /\ sent' = IF op[p] = "request" THEN 0 ELSE sent
    /\ response' = IF op[p] = "request" THEN NoResponse ELSE response
    /\ UNCHANGED <<clock, ticks, calls, credential, signs, last, result>>

\* the caller drops the future of its call at an await: the locals of the
\* call, any guard among them, are dropped; nothing is returned
Cancel(p) ==
    /\ UNCHANGED <<pageVars, newVars, bulkVars>>
    /\ pc[p] \in AwaitPoints
    /\ op[p] \in {"get_token", "refresh_token", "request"}
    /\ readers' = readers \ {p}
    /\ writer' = IF writer = p THEN 0 ELSE writer
    /\ pc' = [pc EXCEPT ![p] = "idle"]
    /\ op' = [op EXCEPT ![p] = "none"]
    /\ now' = [now EXCEPT ![p] = 0]
    /\ seen' = [seen EXCEPT ![p] = None]
    /\ token' = [token EXCEPT ![p] = NoToken]
    /\ sent' = IF op[p] = "request" THEN 0 ELSE sent
    /\ response' = IF op[p] = "request" THEN NoResponse ELSE response
    /\ UNCHANGED <<clock, ticks, calls, credential, token_cache, signs, last,
                   result>>

(* ------------------------ BaseAPI::get_all_pages ----------------------- *)
\* let mut all_results = Vec::new(); current_params with the page size put in
\* under "limit"; let mut current_endpoint = endpoint.to_string();
PagesStart(p) ==
    /\ pc[p] = "idle"
    /\ calls < MaxCalls
    /\ calls' = calls + 1
    /\ \E endpoint \in Endpoints, params \in ParamArgs, limit \in LimitArgs :
          /\ page_args' = [endpoint |-> endpoint, params |-> params, limit |-> limit]
          /\ current_params' =
                insert(unwrap_or_default(params), "limit", page_size(limit))
          /\ current_endpoint' = endpoint
    /\ all_results' = <<>>
    /\ fetched' = <<>>
    /\ gets' = <<>>
    /\ pages_result' = NoPages
    /\ op' = [op EXCEPT ![p] = "get_all_pages"]
    /\ pc' = [pc EXCEPT ![p] = "pg_get"]
    /\ UNCHANGED <<clock, ticks, credential, token_cache, readers, writer,
                   signs, now, seen, token, last, execVars, newVars, bulkVars>>

\* self.get(&current_endpoint, Some(current_params.clone())): request begins
\* by joining the endpoint onto the base URL
PagesGet(p) ==
    /\ pc[p] = "pg_get"
    /\ Len(fetched) < MaxPages
    /\ sent' = 0
    /\ response' = NoResponse
    /\ IF UrlJoins(current_endpoint)
       THEN /\ pc' = [pc EXCEPT ![p] = "rq_headers"]
            /\ result' = NoResult
       ELSE /\ result' = Err("Unknown", <<"Invalid endpoint: ", current_endpoint>>)
            /\ pc' = [pc EXCEPT ![p] = "pg_got"]
    /\ UNCHANGED <<clock, ticks, calls, credential, token_cache, readers, writer,
                   signs, op, now, seen, token, last, pageVars, newVars, bulkVars>>

\* get_all_pages returns: its locals are dropped
PagesReturn(p, r) ==
    /\ pages_result' = r
    /\ all_results' = <<>>
    /\ current_params' = {}
    /\ current_endpoint' = ""
    /\ pc' = [pc EXCEPT ![p] = "idle"]
    /\ op' = [op EXCEPT ![p] = "none"]

\* the rest of one turn of the loop: `?` on what get returned, the data
\* array appended, links.next followed or the loop left
PagesGot(p) ==
    /\ pc[p] = "pg_got"
    /\ gets' = Append(gets, result)
    /\ IF result.kind # "Ok"
       THEN PagesReturn(p, propagate(result, all_results))
       ELSE LET extended == extend(all_results, result.value)
                next == next_page(result.value)
            IN  IF next.kind = "follow"
                THEN /\ all_results' = extended
                     /\ current_endpoint' = next.endpoint
                     /\ current_params' = next.params
                     /\ pc' = [pc EXCEPT ![p] = "pg_get"]
                     /\ UNCHANGED <<pages_result, op>>
                ELSE PagesReturn(p, OkItems(extended))
    /\ UNCHANGED <<clock, ticks, calls, credential, token_cache, readers, writer,
                   signs, now, seen, token, last, execVars, page_args, fetched,
                   newVars, bulkVars>>

(* -------------------- LocalizationsAPI::bulk_update -------------------- *)
\* a call of get_all, update or create begins its request; the endpoints
\* they format join the base URL
BeginRequest(p) ==
    /\ sent' = 0
    /\ response' = NoResponse
    /\ result' = NoResult
    /\ pc' = [pc EXCEPT ![p] = "rq_headers"]

\* let existing = self.get_all(app_info_id).await?;  the call begins
BulkStart(p) ==
    /\ pc[p] = "idle"
    /\ calls < MaxCalls
    /\ calls' = calls + 1
    /\ \E input \in SUBSET Locales :
          /\ localizations' = input
          /\ bulk_input' = input
    /\ existing' = <<>>
    /\ existing_by_locale' = {}
    /\ bulk_results' = {}
    /\ bulk_locale' = ""
    /\ bulk_stage' = "get_all"
    /\ bulk_calls' = <<[fn |-> "get_all", arg |-> "app-info-1"]>>
    /\ bulk_result' = NoBulk
    /\ op' = [op EXCEPT ![p] = "bulk_update"]
    /\ BeginRequest(p)
    /\ UNCHANGED <<clock, ticks, credential, token_cache, readers, writer,
                   signs, now, seen, token, last, pageVars, newVars>>

\* bulk_update returns: its locals are dropped
BulkReturn(p, r) ==
    /\ bulk_result' = r
    /\ localizations' = {}
    /\ existing_by_locale' = {}
    /\ bulk_results' = {}
    /\ bulk_locale' = ""
    /\ bulk_stage' = "none"
    /\ pc' = [pc EXCEPT ![p] = "idle"]
    /\ op' = [op EXCEPT ![p] = "none"]

\* the loop with `?` on what update and create return
BulkGotAborting(p) ==
    /\ pc[p] = "bu_got"
    /\ IF bulk_stage = "get_all"
       THEN LET listed == get_all(result) IN
            IF listed.kind # "Ok"
            THEN /\ BulkReturn(p, ErrResults(listed.kind, listed.message))
                 /\ UNCHANGED existing
            ELSE /\ existing' = listed.items
                 /\ existing_by_locale' = index_by_locale({}, listed.items)
                 /\ bulk_stage' = "loop"
                 /\ pc' = [pc EXCEPT ![p] = "bu_next"]
                 /\ UNCHANGED <<localizations, bulk_results, bulk_locale, bulk_result, op>>
       ELSE LET r == data_or_invalid(result) IN
            IF r.kind # "Ok"
            THEN /\ BulkReturn(p, ErrResults(r.kind, r.message))
                 /\ UNCHANGED existing
            ELSE /\ bulk_results' = insert(bulk_results, bulk_locale,
                                      outcome(IF bulk_stage = "update"
                                              THEN "updated" ELSE "created", r))
                 /\ bulk_stage' = "loop"
                 /\ pc' = [pc EXCEPT ![p] = "bu_next"]
                 /\ UNCHANGED <<localizations, existing, existing_by_locale,
                                bulk_locale, bulk_result, op>>
    /\ UNCHANGED <<clock, ticks, calls, credential, token_cache, readers, writer,
                   signs, now, seen, token, last, execVars, pageVars, newVars,
                   bulk_calls, bulk_input>>

\* what bulk_update does with the result of the call it waited for: `?` on
\* get_all and existing_by_locale built; or the match on update's or create's
\* result and results.insert(locale, result)
BulkGot(p) ==
    /\ pc[p] = "bu_got"
    /\ IF bulk_stage = "get_all"
       THEN LET listed == get_all(result) IN
            IF listed.kind # "Ok"
            THEN /\ BulkReturn(p, ErrResults(listed.kind, listed.message))
                 /\ UNCHANGED existing
            ELSE /\ existing' = listed.items
                 /\ existing_by_locale' = index_by_locale({}, listed.items)
                 /\ bulk_stage' = "loop"
                 /\ pc' = [pc EXCEPT ![p] = "bu_next"]
                 /\ UNCHANGED <<localizations, bulk_results, bulk_locale, bulk_result, op>>
       ELSE /\ bulk_results' = insert(bulk_results, bulk_locale,
                                 outcome(IF bulk_stage = "update"
                                         THEN "updated" ELSE "created",
                                         data_or_invalid(result)))
            /\ bulk_stage' = "loop"
            /\ pc' = [pc EXCEPT ![p] = "bu_next"]
            /\ UNCHANGED <<localizations, existing, existing_by_locale,
                           bulk_locale, bulk_result, op>>
    /\ UNCHANGED <<clock, ticks, calls, credential, token_cache, readers, writer,
                   signs, now, seen, token, last, execVars, pageVars, newVars,
                   bulk_calls, bulk_input>>

\* for (locale, attributes) in localizations: the map gives its entries in
\* any order; update for a locale existing_by_locale has, create otherwise;
\* Ok(results) when the map is exhausted
BulkNext(p) ==
    /\ pc[p] = "bu_next"
    /\ IF localizations = {}
       THEN /\ BulkReturn(p, OkResults(bulk_results))
            /\ UNCHANGED <<bulk_calls, execVars>>
       ELSE \E locale \in localizations :
               /\ localizations' = localizations \ {locale}
               /\ bulk_locale' = locale
               /\ IF contains_key(existing_by_locale, locale)
                  THEN /\ bulk_stage' = "update"
                       /\ bulk_calls' =
                             Append(bulk_calls,
                                    [fn |-> "update",
                                     arg |-> lookup(existing_by_locale, locale)])
                  ELSE /\ bulk_stage' = "create"
                       /\ bulk_calls' =
                             Append(bulk_calls, [fn |-> "create", arg |-> locale])
               /\ BeginRequest(p)
               /\ UNCHANGED <<existing_by_locale, bulk_results, bulk_result, op>>
    /\ UNCHANGED <<clock, ticks, calls, credential, token_cache, readers, writer,
                   signs, now, seen, token, last, pageVars, newVars,
                   existing, bulk_input>>

(* ----------------------------- Client::new ----------------------------- *)
\* let auth = Auth::new(key_id, issuer_id, private_key_path).await?;
\* let base = BaseAPI::new(auth)?;  (the base URL is a constant that parses)
ClientNew ==
    /\ constructed.kind = "none"
    /\ \E path \in KeyPaths :
          LET r == Auth_new("KEY1", "ISSUER1", path) IN
              /\ key_path' = path
              /\ constructed' = [kind |-> r.kind, message |-> r.message]
              /\ credential' = r.auth
    /\ UNCHANGED <<clock, ticks, calls, token_cache, readers, writer, signs,
                   pc, op, now, seen, token, last, execVars, pageVars,
                   env, env_prefix, bulkVars>>

(* --------------------------- Client::from_env -------------------------- *)
\* the prefixes from_env_with_prefix is called with; from_env passes "ASC"
Prefixes == {"ASC", "APP_STORE_CONNECT"}
Suffixes == {"KEY_ID", "ISSUER_ID", "PRIVATE_KEY_PATH"}

\* format!("{}_KEY_ID", prefix) and its two neighbours
var_name(prefix, suffix) ==
    CASE prefix = "ASC" /\ suffix = "KEY_ID" -> "ASC_KEY_ID"
      [] prefix = "ASC" /\ suffix = "ISSUER_ID" -> "ASC_ISSUER_ID"
      [] prefix = "ASC" /\ suffix = "PRIVATE_KEY_PATH" -> "ASC_PRIVATE_KEY_PATH"
      [] prefix = "APP_STORE_CONNECT" /\ suffix = "KEY_ID" ->
            "APP_STORE_CONNECT_KEY_ID"
      [] prefix = "APP_STORE_CONNECT" /\ suffix = "ISSUER_ID" ->
            "APP_STORE_CONNECT_ISSUER_ID"
      [] OTHER -> "APP_STORE_CONNECT_PRIVATE_KEY_PATH"

\* the values P_PRIVATE_KEY_PATH has when it is set
PathValues == {"AuthKey.p8", "missing.p8"}

\* the environment in which the variables S of prefix P are set
EnvOf(P, S, path) ==
    {<<var_name(P, suffix),
       IF suffix = "KEY_ID" THEN "KEY1"
       ELSE IF suffix = "ISSUER_ID" THEN "ISSUER1"
       ELSE path>> : suffix \in S}

\* the environments: the variables of one prefix, each set or unset
Environments ==
    {EnvOf(P, S, path) : P \in Prefixes, S \in SUBSET Suffixes, path \in PathValues}

\* std::env::var(name): the value, or Err(VarError::NotPresent)
env_var(e, name) ==
    IF \E kv \in e : kv[1] = name
    THEN [kind |-> "Ok", value |-> (CHOOSE kv \in e : kv[1] = name)[2]]
    ELSE [kind |-> "Env", value |-> ""]

\* from_env_with_prefix going on to Client::new with an empty string for a
\* variable that is not set
from_env_with_prefix_lenient(e, prefix) ==
    LET key_id == env_var(e, var_name(prefix, "KEY_ID"))
        issuer_id == env_var(e, var_name(prefix, "ISSUER_ID"))
        private_key_path == env_var(e, var_name(prefix, "PRIVATE_KEY_PATH"))
    IN  [kind |-> "new", key_id |-> key_id.value, issuer_id |-> issuer_id.value,
         path |-> IF private_key_path.kind = "Ok" THEN private_key_path.value
                  ELSE "missing.p8"]

\* Client::from_env_with_prefix up to its call of Client::new: the Env error
\* of the first variable that is not set, or the three arguments of new
from_env_with_prefix(e, prefix) ==
    LET key_id == env_var(e, var_name(prefix, "KEY_ID"))
        issuer_id == env_var(e, var_name(prefix, "ISSUER_ID"))
        private_key_path == env_var(e, var_name(prefix, "PRIVATE_KEY_PATH"))
    IN  IF key_id.kind # "Ok" \/ issuer_id.kind # "Ok" \/ private_key_path.kind # "Ok"
        THEN [kind |-> "Env", key_id |-> "", issuer_id |-> "", path |-> ""]
        ELSE [kind |-> "new", key_id |-> key_id.value,
              issuer_id |-> issuer_id.value, path |-> private_key_path.value]

\* Client::from_env_with_prefix(prefix); Client::from_env is the call with "ASC"
ClientFromEnv ==
    /\ constructed.kind = "none"
    /\ \E prefix \in Prefixes :
          LET args == from_env_with_prefix(env, prefix) IN
              /\ env_prefix' = prefix
              /\ IF args.kind = "Env"
                 THEN /\ constructed' = [kind |-> "Env",
                                         message |-> <<"Environment variable error: ",
                                                       "environment variable not found">>]
                      /\ UNCHANGED <<key_path, credential>>
                 ELSE LET r == Auth_new(args.key_id, args.issuer_id, args.path) IN
                          /\ key_path' = args.path
                          /\ constructed' = [kind |-> r.kind, message |-> r.message]
                          /\ credential' = r.auth
    /\ UNCHANGED <<clock, ticks, calls, token_cache, readers, writer, signs,
                   pc, op, now, seen, token, last, execVars, pageVars, env,
                   bulkVars>>

(* ---------------------------- specification ---------------------------- *)
Next ==
    \/ Tick
    \/ \E p \in Callers :
        \/ GetTokenStart(p)
        \/ GetTokenReadLock(p)
        \/ GetTokenCheck(p)
        \/ GetTokenSign(p)
        \/ GetTokenWriteLock(p)
        \/ GetTokenStore(p)
        \/ GetTokenReturn(p)
        \/ RefreshSign(p)
        \/ RefreshNow(p)
        \/ RefreshWriteLock(p)
        \/ RefreshStore(p)

Spec == Init /\ [][Next]_vars

\* one caller's requests, one after the other
NextExec ==
    \E p \in Executors :
        \/ RequestStart(p)
        \/ GetTokenStart(p)
        \/ GetTokenReadLock(p)
        \/ GetTokenCheck(p)
        \/ GetTokenSign(p)
        \/ GetTokenWriteLock(p)
        \/ GetTokenStore(p)
        \/ GetTokenReturn(p)
        \/ RequestAuthFailed(p)
        \/ RequestSend(p)
        \/ RequestHandle(p)

SpecExec == Init /\ [][NextExec]_vars

\* one caller's get_all_pages calls, one after the other
NextPages ==
    \E p \in Executors :
        \/ PagesStart(p)
        \/ PagesGet(p)
        \/ GetTokenStart(p)
        \/ GetTokenReadLock(p)
        \/ GetTokenCheck(p)
        \/ GetTokenSign(p)
        \/ GetTokenWriteLock(p)
        \/ GetTokenStore(p)
        \/ GetTokenReturn(p)
        \/ RequestAuthFailed(p)
        \/ RequestSend(p)
        \/ RequestHandle(p)
        \/ PagesGot(p)

SpecPages == Init /\ [][NextPages]_vars

\* the same calls where every step that can be taken is taken in the end:
\* the runtime polls the future and the server answers each request
SpecPagesLive == Init /\ [][NextPages]_vars /\ WF_vars(NextPages)

\* one caller's get_token and is_token_valid calls while the clock advances
NextValid ==
    \/ Tick
    \/ \E p \in Executors :
        \/ GetTokenStart(p)
        \/ GetTokenReadLock(p)
        \/ GetTokenCheck(p)
        \/ GetTokenSign(p)
        \/ GetTokenWriteLock(p)
        \/ GetTokenStore(p)
        \/ GetTokenReturn(p)
        \/ IsValidReadLock(p)
        \/ IsValidCheck(p)

SpecValid == Init /\ [][NextValid]_vars

\* caller p may begin a call: fewer than MaxShared calls have begun
Budget(p) == pc[p] = "idle" => calls < MaxShared

\* the tasks sharing one Auth: get_token, refresh_token and is_token_valid
\* called by any of them, requests sent by one
NextLocks ==
    \/ \E p \in Callers :
        \/ (Budget(p) /\ GetTokenStart(p))
        \/ GetTokenReadLock(p)
        \/ GetTokenCheck(p)
        \/ GetTokenSign(p)
        \/ GetTokenWriteLock(p)
        \/ GetTokenStore(p)
        \/ GetTokenReturn(p)
        \/ (Budget(p) /\ RefreshSign(p))
        \/ RefreshNow(p)
        \/ RefreshWriteLock(p)
        \/ RefreshStore(p)
        \/ (Budget(p) /\ IsValidReadLock(p))
        \/ IsValidCheck(p)
    \/ \E p \in Executors :
        \/ (Budget(p) /\ RequestStart(p))
        \/ RequestAuthFailed(p)
        \/ RequestSend(p)
        \/ RequestHandle(p)

SpecLocks == Init /\ [][NextLocks]_vars

\* the steps of a call of caller p that is under way
Progress(p) ==
    \/ GetTokenReadLock(p)
    \/ GetTokenCheck(p)
    \/ GetTokenSign(p)
    \/ GetTokenWriteLock(p)
    \/ GetTokenStore(p)
    \/ GetTokenReturn(p)
    \/ RefreshNow(p)
    \/ RefreshWriteLock(p)
    \/ RefreshStore(p)
    \/ (pc[p] = "rq_headers" /\ GetTokenStart(p))
    \/ RequestAuthFailed(p)
    \/ RequestSend(p)
    \/ RequestHandle(p)

\* the same tasks, any of which may drop a call at an await
NextCancel ==
    \/ \E p \in Callers :
        \/ (Budget(p) /\ GetTokenStart(p))
        \/ GetTokenReadLock(p)
        \/ GetTokenCheck(p)
        \/ GetTokenSign(p)
        \/ GetTokenWriteLock(p)
        \/ GetTokenStore(p)
        \/ GetTokenReturn(p)
        \/ (Budget(p) /\ RefreshSign(p))
        \/ RefreshNow(p)
        \/ RefreshWriteLock(p)
        \/ RefreshStore(p)
        \/ Cancel(p)
    \/ \E p \in Executors :
        \/ (Budget(p) /\ RequestStart(p))
        \/ RequestAuthFailed(p)
        \/ RequestSend(p)
        \/ RequestHandle(p)

\* a call that is not dropped is polled until it is done, and the server
\* answers or the connection fails
SpecCancel ==
    /\ Init
    /\ [][NextCancel]_vars
    /\ \A p \in Callers : WF_vars(Progress(p))

\* one caller's bulk_update calls, one after the other
NextBulk ==
    \E p \in Executors :
        \/ BulkStart(p)
        \/ GetTokenStart(p)
        \/ GetTokenReadLock(p)
        \/ GetTokenCheck(p)
        \/ GetTokenSign(p)
        \/ GetTokenWriteLock(p)
        \/ GetTokenStore(p)
        \/ GetTokenReturn(p)
        \/ RequestAuthFailed(p)
        \/ RequestSend(p)
        \/ RequestHandle(p)
        \/ BulkGot(p)
        \/ BulkNext(p)

SpecBulk == Init /\ [][NextBulk]_vars

\* before construction: no Auth, no client
InitNew ==
    /\ clock = 0
    /\ ticks = 0
    /\ calls = 0
    /\ credential = NoCredential
    /\ token_cache = None
    /\ readers = {}
    /\ writer = 0
    /\ signs = 0
    /\ pc = [p \in Callers |-> "idle"]
    /\ op = [p \in Callers |-> "none"]
    /\ now = [p \in Callers |-> 0]
    /\ seen = [p \in Callers |-> None]
    /\ token = [p \in Callers |-> NoToken]
    /\ last = NoRet
    /\ sent = 0
    /\ response = NoResponse
    /\ result = NoResult
    /\ page_args = NoPageArgs
    /\ all_results = <<>>
    /\ current_params = {}
    /\ current_endpoint = ""
    /\ fetched = <<>>
    /\ gets = <<>>
    /\ pages_result = NoPages
    /\ key_path = ""
    /\ constructed = [kind |-> "none", message |-> <<>>]
    /\ env = {}
    /\ env_prefix = ""
    /\ BulkIdle

\* the client's methods take &self: there is one to call them on only when
\* construction returned Ok
UseClient ==
    /\ constructed.kind = "Ok"
    /\ NextExec

\* construction, then the requests of the client it returned
NextNew ==
    \/ ClientNew
    \/ UseClient

SpecNew == InitNew /\ [][NextNew]_vars

\* before construction from the environment: the process has one of the
\* environments
InitEnv ==
    /\ clock = 0
    /\ ticks = 0
    /\ calls = 0
    /\ credential = NoCredential
    /\ token_cache = None
    /\ readers = {}
    /\ writer = 0
    /\ signs = 0
    /\ pc = [p \in Callers |-> "idle"]
    /\ op = [p \in Callers |-> "none"]
    /\ now = [p \in Callers |-> 0]
    /\ seen = [p \in Callers |-> None]
    /\ token = [p \in Callers |-> NoToken]
    /\ last = NoRet
    /\ sent = 0
    /\ response = NoResponse
    /\ result = NoResult
    /\ page_args = NoPageArgs
    /\ all_results = <<>>
    /\ current_params = {}
    /\ current_endpoint = ""
    /\ fetched = <<>>
    /\ gets = <<>>
    /\ pages_result = NoPages
    /\ key_path = ""
    /\ constructed = [kind |-> "none", message |-> <<>>]
    /\ env \in Environments
    /\ env_prefix = ""
    /\ BulkIdle

\* construction from the environment, then the requests of the client
NextEnv ==
    \/ ClientFromEnv
    \/ UseClient

SpecEnv == InitEnv /\ [][NextEnv]_vars

\* every caller has called get_token at the same instant on the empty cache
InitHerd ==
    /\ clock = 0
    /\ ticks = 0
    /\ calls = NumCallers
    /\ credential \in Credentials
    /\ token_cache = None
    /\ readers = {}
    /\ writer = 0
    /\ signs = 0
    /\ pc = [p \in Callers |-> "gt_read"]
    /\ op = [p \in Callers |-> "get_token"]
    /\ now = [p \in Callers |-> 0]
    /\ seen = [p \in Callers |-> None]
    /\ token = [p \in Callers |-> NoToken]
    /\ last = NoRet
    /\ sent = 0
    /\ response = NoResponse
    /\ result = NoResult
    /\ page_args = NoPageArgs
    /\ all_results = <<>>
    /\ current_params = {}
    /\ current_endpoint = ""
    /\ fetched = <<>>
    /\ gets = <<>>
    /\ pages_result = NoPages
    /\ key_path \in {path \in KeyPaths :
                        Auth_new("KEY1", "ISSUER1", path) = NewOk(credential)}
    /\ constructed = [kind |-> "Ok", message |-> <<>>]
    /\ env = {}
    /\ env_prefix = ""
    /\ BulkIdle

\* the clock while the herd's calls are in flight: they are served within one
\* token lifetime of the instant they were made
TickHerd ==
    /\ Tick
    /\ clock' < TokenLifetime

\* the rest of caller p's get_token
HerdStep(p) ==
    \/ GetTokenReadLock(p)
    \/ GetTokenCheck(p)
    \/ GetTokenSign(p)
    \/ GetTokenWriteLock(p)
    \/ GetTokenStore(p)
    \/ GetTokenReturn(p)

NextHerd ==
    \/ TickHerd
    \/ \E p \in Callers : HerdStep(p)

\* the runtime polls every task that can run, and the RwLock serves its waiters
\* in order: a caller whose next step stays possible takes it
SpecHerd ==
    /\ InitHerd
    /\ [][NextHerd]_vars
    /\ \A p \in Callers : WF_vars(HerdStep(p))

(* ======================================================================= *)
(*                               the claims                                *)
(* ======================================================================= *)

\* the tokens the state holds: callers' locals, the cache, the last return
TokensInState ==
    ({token[p] : p \in Callers}
        \cup (IF token_cache.kind = "Some" THEN {token_cache.token} ELSE {})
        \cup {last.token})
    \ {NoToken}

\* caller p takes a step out of position l
StepFrom(p, l) == pc[p] = l /\ pc'[p] # l

(* ------------------------------- C1 ------------------------------------ *)
\* C1 (as claimed): a token get_token hands back is never returned at an
\* instant within 60 seconds of, or after, the expiry recorded for it in the
\* cache, whatever time passes between the steps of the call.  Stated here for
\* the calls that took no more than one second from their clock reading to
\* their return, which is all it takes to refute it.
C1_NeverReturnedInsideMargin ==
    ( /\ last.kind = "Ok"
      /\ last.path \in {"hit", "miss"}
      /\ last.at - last.now <= 1 )
    => last.at < last.expiry - 60

(* ------------------------------- C2 ------------------------------------ *)
\* C2 (amended): when the cache holds (token, expiry) and the caller's
\* now < expiry - 60, get_token returns the cached token string unchanged,
\* signs nothing and leaves the cache as it is; and a later cache hit that still
\* finds the entry an earlier hit returned (no replacement in between, by
\* refresh_token or by a get_token that was regenerating concurrently)
\* returns the identical token string.
C2_CacheHitReturnsCached ==
    [][ /\ \A p \in Callers :
              ( /\ StepFrom(p, "gt_check")
                /\ token_cache.kind = "Some"
                /\ now[p] < token_cache.expiry - 60 )
              => /\ pc'[p] = "idle"
                 /\ last'.caller = p
                 /\ last'.kind = "Ok"
                 /\ last'.path = "hit"
                 /\ last'.token = token_cache.token
                 /\ token_cache' = token_cache
                 /\ signs' = signs
        /\ ( /\ last.path = "hit"
             /\ last'.path = "hit"
             /\ last'.seen = last.seen )
           => last'.token = last.token
      ]_vars

\* C2 witness: three calls have completed on one signature: the first
\* generated the token, the other two were cache hits that returned it.
C2_TwoHitsOneSignature ==
    /\ \A p \in Callers : pc[p] = "idle"
    /\ calls = 3
    /\ signs = 1
    /\ last.kind = "Ok"
    /\ last.path = "hit"
    /\ token_cache.kind = "Some"
    /\ last.token = token_cache.token

\* C2 (as claimed): two get_token calls inside the same 19-minute window (the
\* second call's now is before expiry - 60 of the entry the first returned)
\* with no refresh_token returning in between return the identical string.
C2_SameWindowSameToken ==
    [][ ( /\ last.path = "hit"
          /\ last'.path = "hit"
          /\ last'.now >= last.now
          /\ last'.now < last.expiry - 60 )
        => last'.token = last.token
      ]_vars

(* ------------------------------- C3 ------------------------------------ *)
\* C3: a get_token call that finds the cache empty, or its now >= expiry - 60,
\* does not return the cached token: it signs a new token (a string no token
\* of the state has, the previously cached one included), installs it with
\* the expiry now + 20 minutes, later than the one it found, and returns it.
\* (With a key the signer refuses, the call returns the Authentication error
\* instead and the cache keeps what it had.)
C3_MissRegenerates ==
    [][ \A p \in Callers :
          /\ ( /\ StepFrom(p, "gt_check")
               /\ (token_cache.kind = "None" \/ now[p] >= token_cache.expiry - 60) )
             => /\ pc'[p] = "gt_sign"
                /\ seen'[p] = token_cache
                /\ last' = last
          /\ (StepFrom(p, "gt_sign") /\ KeySigns(credential.private_key))
             => /\ pc'[p] = "gt_write"
                /\ token'[p] # NoToken
                /\ token'[p] \notin TokensInState
                /\ seen[p].kind = "Some" => token'[p] # seen[p].token
                /\ token_cache' = token_cache
          /\ (StepFrom(p, "gt_sign") /\ ~KeySigns(credential.private_key))
             => /\ last'.kind = "Authentication"
                /\ token_cache' = token_cache
          /\ StepFrom(p, "gt_store")
             => /\ token_cache' = Some(token[p], now[p] + 20 * 60)
                /\ seen[p].kind = "Some"
                      => /\ token_cache'.expiry > seen[p].expiry
                         /\ token_cache'.token # seen[p].token
          /\ StepFrom(p, "gt_ret")
             => /\ last'.caller = p
                /\ last'.kind = "Ok"
                /\ last'.path = "miss"
                /\ last'.token = token[p]
                /\ seen[p].kind = "Some" => last'.token # seen[p].token
      ]_vars

\* C3 witness: a call made at expiry - 30 of the cached entry has returned a
\* new token, and the cache holds it with the new expiry.
C3_RegeneratedAtExpiryMinus30 ==
    /\ last.kind = "Ok"
    /\ last.path = "miss"
    /\ last.seen.kind = "Some"
    /\ last.now = last.seen.expiry - 30
    /\ last.token # last.seen.token
    /\ token_cache = Some(last.token, last.now + 20 * 60)

(* ------------------------------- C4 ------------------------------------ *)
\* C4: every token generate_token produced, through get_token or through
\* refresh_token, has issued_at < expiry, expiry - issued_at = 1200 seconds,
\* the configured issuer id as issuer and the fixed audience.
C4_TokenClaims ==
    \A t \in TokensInState :
        /\ t.iat < t.exp
        /\ t.exp - t.iat = 1200
        /\ t.iss = credential.issuer_id
        /\ t.aud = "appstoreconnect-v1"

\* C4 witness: the cache holds a token that refresh_token generated after the
\* clock had advanced, while a get_token caller holds one of its own.
C4_TokensFromBothPaths ==
    /\ last.kind = "Ok"
    /\ last.path = "refresh"
    /\ token_cache.kind = "Some"
    /\ token_cache.token = last.token
    /\ last.token.iat > 0
    /\ \E p \in Callers : pc[p] \in {"gt_write", "gt_store", "gt_ret"} /\ token[p] # NoToken

Handled(st) ==
    /\ response.status = st
    /\ response.body.kind # "unreadable"
    /\ result.kind # "none"

\* the text is that of a document {"errors": [..]} whose entries ApiError accepts
IsErrorsDocument(body) ==
    /\ body.kind = "json"
    /\ body.doc.t = "object"
    /\ body.doc.errors.t = "array"
    /\ \A i \in 1..Len(body.doc.errors.items) :
          \A v \in {body.doc.errors.items[i].title,
                    body.doc.errors.items[i].detail,
                    body.doc.errors.items[i].code} :
              v.t \in {"absent", "null", "string"}

\* the message the claims expect for a body: the first errors entry's title,
\* else its detail, else its code; the fallback when the body is no errors
\* document, its array is empty or the first entry has none of the three
ExpectedMessage(body, fallback) ==
    IF IsErrorsDocument(body) /\ body.doc.errors.items # <<>>
    THEN LET e == body.doc.errors.items[1] IN
            IF e.title.t = "string" THEN e.title.s
            ELSE IF e.detail.t = "string" THEN e.detail.s
            ELSE IF e.code.t = "string" THEN e.code.s
            ELSE fallback
    ELSE fallback

(* ------------------------------- C6 ------------------------------------ *)
\* C6 (as claimed): a response with status 401 makes request return an error
\* of kind Authentication with a fixed message, whatever the body.
C6_UnauthorizedIsAuthentication ==
    Handled(401)
        => /\ result.kind = "Authentication"
           /\ result.message = <<"Authentication failed. Check your credentials.">>

(* ------------------------------- C7 ------------------------------------ *)
\* C7: a response with status 404 makes request return a NotFound error whose
\* message is exactly the one extracted from the body's first errors entry,
\* and exactly "Resource not found" when the body does not parse or yields no
\* message.
C7_NotFoundMessage ==
    Handled(404)
        => /\ result.kind = "NotFound"
           /\ result.message = <<ExpectedMessage(response.body, "Resource not found")>>

\* C7 witness: 404 with the body {"errors":[{"title":"App not found"}]} has
\* been answered with NotFound("App not found").
C7_AppNotFound ==
    /\ response.status = 404
    /\ response.body =
          [kind |-> "json",
           doc |-> JObj(JArr(<<[title |-> JStr("App not found"),
                                detail |-> Absent, code |-> Absent]>>), Absent)]
    /\ result.kind = "NotFound"
    /\ result.message = <<"App not found">>

(* ------------------------------- C8 ------------------------------------ *)
\* C8: a response with status 429 makes request return a RateLimit error with
\* the fixed wait-and-retry message for every body: empty, not JSON, or a
\* well-formed errors document.
C8_RateLimitFixed ==
    Handled(429)
        => /\ result.kind = "RateLimit"
           /\ result.message = <<"API rate limit exceeded. Please wait before retrying.">>

\* C8 witness: 429 with a well-formed errors document carrying a title has
\* been answered with the fixed RateLimit message, not with the title.
C8_RateLimitIgnoresBody ==
    /\ response.status = 429
    /\ IsErrorsDocument(response.body)
    /\ response.body.doc.errors.items # <<>>
    /\ response.body.doc.errors.items[1].title.t = "string"
    /\ result.kind = "RateLimit"
    /\ result.message # <<response.body.doc.errors.items[1].title.s>>

(* ------------------------------- C9 ------------------------------------ *)
\* C9: status 409 gives a Conflict error and status 422 a Validation error,
\* the message being the one extracted from the body when there is one and
\* otherwise "Conflict occurred", respectively "Validation failed".
C9_ConflictAndValidation ==
    /\ Handled(409)
          => /\ result.kind = "Conflict"
             /\ result.message = <<ExpectedMessage(response.body, "Conflict occurred")>>
    /\ Handled(422)
          => /\ result.kind = "Validation"
             /\ result.message = <<ExpectedMessage(response.body, "Validation failed")>>

\* C9 witness: 422 with a body that is not JSON has been answered with
\* Validation("Validation failed").
C9_ValidationFallback ==
    /\ response.status = 422
    /\ response.body.kind = "invalid"
    /\ result.kind = "Validation"
    /\ result.message = <<"Validation failed">>

(* ------------------------------- C10 ----------------------------------- *)
\* C10: status 200 or 201 returns the empty JSON object for an empty body,
\* the parsed JSON value for a body that is JSON, and a Json error for a
\* non-empty body that is not JSON; status 204 returns the empty JSON object
\* whatever the body holds.
C10_SuccessClassification ==
    /\ \A st \in {200, 201} :
          Handled(st)
             => /\ response.body.kind = "empty" => result = Ok(JObj(Absent, Absent))
                /\ response.body.kind = "json" => result = Ok(response.body.doc)
                /\ response.body.kind = "invalid" => result.kind = "Json"
    /\ Handled(204) => result = Ok(JObj(Absent, Absent))

\* C10 witness: 201 with an empty body has been answered with the empty
\* JSON object.
C10_CreatedEmptyBody ==
    /\ response.status = 201
    /\ response.body.kind = "empty"
    /\ result = Ok(JObj(Absent, Absent))

(* ------------------------------- C11 ----------------------------------- *)
\* C11: a response whose status is none of 200, 201, 204, 401, 403, 404, 409,
\* 422, 429 makes request return the generic Api error whose message holds
\* the status and the message extracted from the body, "Unknown error" when
\* none can be extracted; it is never a success nor one of the specific kinds.
C11_OtherStatusIsApiError ==
    \A st \in Statuses \ {200, 201, 204, 401, 403, 404, 409, 422, 429} :
        Handled(st)
           => /\ result.kind = "Api"
              /\ result.kind \notin {"Ok", "Authentication", "RateLimit", "NotFound",
                                     "Validation", "Conflict"}
              /\ result.message =
                    <<"API request failed with status ", StatusText(st), ": ",
                      ExpectedMessage(response.body, "Unknown error")>>
              /\ \E i \in 1..Len(result.message) : result.message[i] = StatusText(st)

\* C11 witness: 202 Accepted with an empty body has been answered with the
\* Api error carrying "202 Accepted" and "Unknown error".
C11_AcceptedIsApiError ==
    /\ response.status = 202
    /\ response.body.kind = "empty"
    /\ result.kind = "Api"
    /\ result.message =
          <<"API request failed with status ", "202 Accepted", ": ", "Unknown error">>

(* ------------------------------- C12 ----------------------------------- *)
\* C12: for a body that parses as an errors document with a non-empty errors
\* array, extract_error_message returns the first entry's title if it has
\* one, else its detail, else its code, whatever the later entries hold; it
\* returns no message when the body does not parse or the array is empty.
\* Checked on the body of every response received, and on what request made
\* of it for a 404.
C12_ExtractFirstEntry ==
    response.body.kind \in {"empty", "invalid", "json"}
       => LET body == response.body
              m == extract_error_message(body) IN
          /\ IF IsErrorsDocument(body) /\ body.doc.errors.items # <<>>
             THEN LET e == body.doc.errors.items[1] IN
                     IF e.title.t = "string" THEN m = SomeMsg(e.title.s)
                     ELSE IF e.detail.t = "string" THEN m = SomeMsg(e.detail.s)
                     ELSE IF e.code.t = "string" THEN m = SomeMsg(e.code.s)
                     ELSE m = NoMsg
             ELSE m = NoMsg
          /\ (Handled(404) /\ m.kind = "Some") => result.message = <<m.s>>

\* C12 witness: a 404 whose first errors entry has only a code and whose
\* second entry has a title has been answered with the code.
C12_CodeOfFirstEntry ==
    /\ Handled(404)
    /\ IsErrorsDocument(response.body)
    /\ Len(response.body.doc.errors.items) = 2
    /\ response.body.doc.errors.items[1] =
          [title |-> Absent, detail |-> Absent, code |-> JStr("NOT_FOUND")]
    /\ response.body.doc.errors.items[2].title = JStr("App not found")
    /\ result.message = <<"NOT_FOUND">>

(* ------------------------------- C13 ----------------------------------- *)
\* C13: one call of request hands at most one request to the transport; a
\* transport failure ends the call with the Http error, and whatever response
\* arrives (429 and 500 included) the call ends with what handle_response
\* makes of it, without sending again.
C13_AtMostOneTransportRequest ==
    [][ \A p \in Executors :
          /\ sent' <= 1
          /\ StepFrom(p, "rq_send")
                => /\ sent' = sent + 1
                   /\ pc'[p] \in {"idle", "rq_handle"}
                   /\ pc'[p] = "idle" => result'.kind = "Http"
          /\ StepFrom(p, "rq_handle")
                => /\ pc'[p] = "idle"
                   /\ sent' = sent
                   /\ result' = handle_response(response.status, response.body)
                   /\ (response.status \in {429, 500}
                          /\ response.body.kind # "unreadable")
                         => result'.kind \in {"RateLimit", "Api"}
      ]_vars

\* C13 witness: a request answered 429 has returned the RateLimit error
\* after one transport request.
C13_RateLimitedOnce ==
    /\ pc[1] = "idle"
    /\ response.status = 429
    /\ result.kind = "RateLimit"
    /\ sent = 1

(* ----------------------- the pagination claims ------------------------- *)
\* get_all_pages has returned
PagesReturned == pages_result.kind # "none"

\* the items of a page: the elements of its data array, none when the page
\* is no object, has no data member, or the member is no array
DataItems(doc) ==
    IF doc.t = "object" /\ "data" \in DOMAIN doc /\ doc.data.t = "array"
    THEN doc.data.items
    ELSE <<>>

\* the page has a links object with a next member
HasNext(doc) ==
    /\ doc.t = "object"
    /\ "links" \in DOMAIN doc
    /\ doc.links.t = "object"
    /\ doc.links.next.t # "absent"

\* that member is a string that parses as a URL
HasParseableNext(doc) ==
    /\ HasNext(doc)
    /\ doc.links.next.t = "string"
    /\ Url_parse(doc.links.next.s).ok

\* the first n fetches all succeeded
AllOk(n) == \A i \in 1..n : gets[i].kind = "Ok"

\* the data arrays of the first n pages, one after the other
RECURSIVE Concatenation(_)
Concatenation(n) ==
    IF n = 0 THEN <<>> ELSE Concatenation(n - 1) \o DataItems(gets[n].value)

(* ------------------------------- C14 ----------------------------------- *)
\* C14: when the server has served N pages, pages 1..N-1 with a parseable
\* links.next and page N without one, get_all_pages returns the N data arrays
\* concatenated in page order and element order, and has issued exactly N GET
\* requests.
C14_ChainConcatenated ==
    LET N == Len(gets) IN
    ( /\ PagesReturned
      /\ N >= 1
      /\ AllOk(N)
      /\ \A i \in 1..(N - 1) : HasParseableNext(gets[i].value)
      /\ ~HasNext(gets[N].value) )
    => /\ pages_result = OkItems(Concatenation(N))
       /\ Len(fetched) = N

\* C14 witness: three pages, the first two with a next link, have been
\* returned as the four items of their data arrays in order, after 3 GETs.
C14_ThreePages ==
    /\ PagesReturned
    /\ Len(gets) = 3
    /\ Len(fetched) = 3
    /\ AllOk(3)
    /\ HasParseableNext(gets[1].value)
    /\ HasParseableNext(gets[2].value)
    /\ ~HasNext(gets[3].value)
    /\ pages_result =
          OkItems(<<JStr("app-1"), JStr("app-2"), JStr("app-1"), JStr("app-1")>>)

(* ------------------------------- C15 ----------------------------------- *)
\* C15: the first request of get_all_pages carries exactly one limit
\* parameter: min(L, 200) when the caller passed the limit L, 200 when it
\* passed none, whatever limit entry the caller's params had (its other
\* entries are sent as they are); the value sent never exceeds 200.
C15_FirstRequestPageSize ==
    Len(fetched) >= 1
       => LET first == fetched[1].params
              L == page_args.limit
              theirs == IF page_args.params.kind = "Some"
                        THEN page_args.params.map ELSE {}
          IN  /\ {kv \in first : kv[1] = "limit"} =
                    {<<"limit",
                       IF L.kind = "None" THEN "200"
                       ELSE IF L.n <= 200 THEN ToString(L.n)
                       ELSE "200">>}
              /\ {kv \in first : kv[1] # "limit"} = {kv \in theirs : kv[1] # "limit"}
              /\ \A kv \in first :
                    kv[1] = "limit" => kv[2] \in {ToString(n) : n \in 0..200}

\* C15 witness: a call with limit 500 and params holding limit=500 has sent
\* its first request with limit=200.
C15_CappedOverParams ==
    /\ Len(fetched) >= 1
    /\ page_args.limit = SomeLimit(500)
    /\ <<"limit", "500">> \in page_args.params.map
    /\ <<"limit", "200">> \in fetched[1].params
    /\ <<"limit", "500">> \notin fetched[1].params

(* ------------------------------- C16 ----------------------------------- *)
\* C16 (as claimed): when the caller supplies a cap, get_all_pages fetches
\* no further page once the items accumulated have reached the cap, even
\* though the last page offered a next link: every GET it hands to the
\* transport is sent while fewer items than the cap are accumulated.
C16_StopsAtCap ==
    ( /\ op[1] = "get_all_pages"
      /\ page_args.limit.kind = "Some"
      /\ pc[1] = "rq_handle" )
    => Len(all_results) < page_args.limit.n

(* ------------------------------- C17 ----------------------------------- *)
\* C17: when the last page fetched has a links.next that does not parse as a
\* URL, get_all_pages has returned Ok with the items of every page fetched,
\* that page's included, and has issued no request after that page's.
C17_UnparseableNextStops ==
    LET N == Len(gets) IN
    ( /\ N >= 1
      /\ AllOk(N)
      /\ HasNext(gets[N].value)
      /\ ~HasParseableNext(gets[N].value) )
    => /\ PagesReturned
       /\ op[1] # "get_all_pages"
       /\ pages_result = OkItems(Concatenation(N))
       /\ Len(fetched) = N

\* C17 witness: the second page's next link is no URL; the call has returned
\* Ok with the items of both pages after two GETs.
C17_StoppedOnSecondPage ==
    /\ PagesReturned
    /\ Len(gets) = 2
    /\ AllOk(2)
    /\ HasNext(gets[2].value)
    /\ gets[2].value.links.next = JStr(NotAUrl)
    /\ pages_result.kind = "Ok"
    /\ Len(pages_result.items) = 3
    /\ Len(fetched) = 2

(* ------------------------------- C18 ----------------------------------- *)
\* C18: when a page fetch fails, on the first page or after successful ones,
\* get_all_pages returns that error with its kind and message, returns no
\* item of the earlier pages, and requests no further page: a failed fetch is
\* always the last one of the call.
C18_FailedFetchPropagates ==
    LET N == Len(gets) IN
    /\ \A i \in 1..(N - 1) : gets[i].kind = "Ok"
    /\ (N >= 1 /\ gets[N].kind # "Ok")
          => /\ PagesReturned
             /\ op[1] # "get_all_pages"
             /\ pages_result.kind = gets[N].kind
             /\ pages_result.kind # "Ok"
             /\ pages_result.message = gets[N].message
             /\ pages_result.items = <<>>
             /\ Len(fetched) <= N

\* C18 witness: after two pages that brought items, the third fetch was
\* answered 429; the call has returned the RateLimit error and no item.
C18_RateLimitedOnThirdPage ==
    /\ Len(gets) = 3
    /\ Len(fetched) = 3
    /\ DataItems(gets[1].value) # <<>>
    /\ DataItems(gets[2].value) # <<>>
    /\ gets[3].kind = "RateLimit"
    /\ pages_result.kind = "RateLimit"
    /\ pages_result.items = <<>>

(* ------------------------------- C19 ----------------------------------- *)
\* C19: a successful page without a data array (no such member, or one that
\* is no array) adds no item; without a links.next it ends the call normally
\* with Ok and the items accumulated, with a parseable links.next the loop
\* goes on to fetch the next page.
C19_NoDataPage ==
    [][ \A p \in Executors :
          ( /\ StepFrom(p, "pg_got")
            /\ result.kind = "Ok"
            /\ ~( /\ result.value.t = "object"
                  /\ "data" \in DOMAIN result.value
                  /\ result.value.data.t = "array" ) )
          => /\ ~HasNext(result.value)
                   => /\ pages_result' = OkItems(all_results)
                      /\ pc'[p] = "idle"
             /\ HasParseableNext(result.value)
                   => /\ all_results' = all_results
                      /\ pages_result' = NoPages
                      /\ pc'[p] = "pg_get"
                      /\ current_endpoint' # ""
      ]_vars

\* C19 witness: the first page had a data member that is no array and a next
\* link, the second page one item and no next link: the call has returned
\* that one item after two GETs.
C19_EmptyPageThenItems ==
    /\ PagesReturned
    /\ Len(gets) = 2
    /\ Len(fetched) = 2
    /\ AllOk(2)
    /\ gets[1].value.t = "object"
    /\ gets[1].value.data = JStr("not an array")
    /\ HasParseableNext(gets[1].value)
    /\ pages_result = OkItems(<<JStr("app-1")>>)

(* ------------------------------- C20 ----------------------------------- *)
\* C20: construction with a private-key path that does not exist, cannot be
\* read, or holds no parseable EC PEM key returns an Authentication error and
\* no client; it has generated no token and issued no request by then, and
\* nothing is generated or requested afterwards.
C20_BadKeyFailsConstruction ==
    /\ constructed.kind = "none"
          => /\ signs = 0
             /\ sent = 0
             /\ calls = 0
    /\ ( /\ constructed.kind # "none"
         /\ key_path \in {"missing.p8", "keys/", "truncated.p8"} )
          => /\ constructed.kind = "Authentication"
             /\ credential = NoCredential
             /\ token_cache = None
             /\ signs = 0
             /\ sent = 0
             /\ calls = 0
             /\ \A p \in Callers : pc[p] = "idle"

\* C20 witness: construction with the file holding a truncated PEM has
\* returned the Authentication error about parsing the key.
C20_TruncatedPemRejected ==
    /\ key_path = "truncated.p8"
    /\ constructed.kind = "Authentication"
    /\ constructed.message[1] = "Failed to parse private key: "
    /\ signs = 0
    /\ sent = 0

(* ------------------------------- C21 ----------------------------------- *)
\* C21: from_env_with_prefix(P), from_env being the call with P = ASC,
\* returns the Env error whenever one of P_KEY_ID, P_ISSUER_ID,
\* P_PRIVATE_KEY_PATH is not set; it has then given no path to Auth::new, no
\* Auth exists, and nothing is signed or sent.
C21_MissingVariableIsEnvError ==
    ( /\ constructed.kind # "none"
      /\ \E name \in {var_name(env_prefix, "KEY_ID"),
                      var_name(env_prefix, "ISSUER_ID"),
                      var_name(env_prefix, "PRIVATE_KEY_PATH")} :
            \A kv \in env : kv[1] # name )
    => /\ constructed.kind = "Env"
       /\ key_path = ""
       /\ credential = NoCredential
       /\ token_cache = None
       /\ signs = 0
       /\ sent = 0
       /\ calls = 0

\* C21 witness: with the APP_STORE_CONNECT_ variables all set and no ASC_
\* variable, the call with prefix ASC has returned the Env error.
C21_WrongPrefixIsEnvError ==
    /\ env_prefix = "ASC"
    /\ env = {<<"APP_STORE_CONNECT_KEY_ID", "KEY1">>,
              <<"APP_STORE_CONNECT_ISSUER_ID", "ISSUER1">>,
              <<"APP_STORE_CONNECT_PRIVATE_KEY_PATH", "AuthKey.p8">>}
    /\ constructed.kind = "Env"
    /\ key_path = ""

(* ------------------------------- C22 ----------------------------------- *)
\* C22: every refresh_token call whose signing succeeds signs a new token,
\* whatever the cache holds (empty, stale, or a token still good well
\* outside the margin), and replaces the cache entry with it; at its return
\* the cache holds that token.
C22_RefreshAlwaysReplaces ==
    [][ \A p \in Callers :
          /\ ( /\ pc[p] = "idle"
               /\ calls' = calls + 1
               /\ \/ pc'[p] = "rf_now"
                  \/ (pc' = pc /\ last'.caller = p /\ last'.path = "refresh") )
             => /\ token_cache' = token_cache
                /\ IF KeySigns(credential.private_key)
                   THEN /\ pc'[p] = "rf_now"
                        /\ signs' = signs + 1
                        /\ token'[p] # NoToken
                        /\ token'[p] \notin TokensInState
                   ELSE last'.kind = "Authentication"
          /\ StepFrom(p, "rf_store")
             => /\ token_cache' = Some(token[p], now[p] + 20 * 60)
                /\ token_cache.kind = "Some" => token_cache'.token # token_cache.token
                /\ last'.caller = p
                /\ last'.kind = "Ok"
                /\ last'.path = "refresh"
                /\ last'.token = token_cache'.token
                /\ pc'[p] = "idle"
      ]_vars

\* C22 witness: two calls have completed at clock 0, the second a
\* refresh_token: it replaced the token the first had installed, which had
\* its whole lifetime left, and the cache holds the refreshed one.
C22_RefreshedWhileValid ==
    /\ \A p \in Callers : pc[p] = "idle"
    /\ clock = 0
    /\ calls = 2
    /\ signs = 2
    /\ last.kind = "Ok"
    /\ last.path = "refresh"
    /\ last.token.sig = 2
    /\ token_cache = Some(last.token, 1200)

(* ------------------------------- C28 ----------------------------------- *)
\* C28 (as claimed): whenever the cache holds (token, expiry), the recorded
\* expiry is not later than the exp claim signed into the token, for entries
\* installed by get_token and by refresh_token alike.
C28_RecordedExpiryNotLater ==
    token_cache.kind = "Some" => token_cache.expiry <= token_cache.token.exp

(* ------------------------------- C29 ----------------------------------- *)
\* C29 (as claimed): whatever the interleaving of get_token and
\* refresh_token calls, each replacement of a cache entry installs a recorded
\* expiry greater than or equal to the one it overwrites.
C29_ExpiryNeverDecreases ==
    [][ (token_cache.kind = "Some" /\ token_cache' # token_cache)
           => /\ token_cache'.kind = "Some"
              /\ token_cache'.expiry >= token_cache.expiry
      ]_vars

(* ------------------------------- C23 ----------------------------------- *)
\* C23: is_token_valid returns true exactly when the cache holds an entry
\* and the clock is before its recorded expiry, without the 60-second
\* margin, and false when the cache is empty or the clock has reached the
\* expiry; it leaves the cache as it is.  A get_token call that reads the
\* clock in the last 60 seconds before the expiry regenerates although
\* is_token_valid answers true there.
C23_ValidWithoutMargin ==
    [][ \A p \in Executors :
          /\ StepFrom(p, "iv_check")
             => /\ last'.caller = p
                /\ last'.kind \in {"true", "false"}
                /\ last'.kind = "true"
                      <=> (token_cache.kind = "Some" /\ clock < token_cache.expiry)
                /\ token_cache' = token_cache
                /\ signs' = signs
          /\ (pc[p] = "idle" /\ pc'[p] = "iv_check") => token_cache' = token_cache
          /\ ( /\ StepFrom(p, "gt_check")
               /\ token_cache.kind = "Some"
               /\ token_cache.expiry - 60 <= now[p]
               /\ now[p] < token_cache.expiry )
             => /\ pc'[p] = "gt_sign"
                /\ is_valid(token_cache, now[p])
      ]_vars

\* C23 witness: is_token_valid answered true 30 seconds before the recorded
\* expiry, and a get_token call made at that same clock reading has found
\* the same entry and is regenerating.
C23_ValidYetRegenerating ==
    /\ last.path = "is_valid"
    /\ last.kind = "true"
    /\ last.seen.kind = "Some"
    /\ last.now = last.seen.expiry - 30
    /\ pc[1] = "gt_sign"
    /\ seen[1] = last.seen
    /\ now[1] = last.now

(* ------------------------------- C26 ----------------------------------- *)
\* the path and the query pairs of a page's next link
LinkOf(doc) == Url_parse(doc.links.next.s)
QueryPairs(url) == {url.query[j] : j \in DOMAIN url.query}

\* the pairs that stay when every key keeps the value of its last occurrence
LastPairs(url) ==
    {url.query[j] : j \in {k \in DOMAIN url.query :
                              \A l \in DOMAIN url.query :
                                 l > k => url.query[l][1] # url.query[k][1]}}

\* C26 (as claimed): after a page with a parseable links.next, the next
\* request of get_all_pages has as endpoint the link's path without the /v1/
\* prefix and as query parameters exactly the link's query pairs; the
\* parameters of the request before (the caller's filters, the initial
\* limit) are dropped, not merged.
C26_NextLinkReplacesParams ==
    \A i \in 1..Len(gets) :
        (gets[i].kind = "Ok" /\ HasParseableNext(gets[i].value))
        => LET url == LinkOf(gets[i].value)
               endpoint == trim_start_matches_v1(url.path)
           IN  /\ endpoint \in {"apps", "//[bad"}
               /\ (i = Len(gets) /\ ~PagesReturned /\ pc[1] = "pg_get")
                  => /\ current_endpoint = endpoint
                     /\ current_params = QueryPairs(url)
               /\ Len(fetched) > i
                  => fetched[i + 1] = [endpoint |-> endpoint,
                                       params |-> QueryPairs(url)]

\* C26 (amended): the same, the query parameters being the link's query
\* pairs with one value per key, the last the link gives for it; nothing of
\* the parameters of the request before is kept.
C26_NextLinkReplacesParamsLastValue ==
    \A i \in 1..Len(gets) :
        (gets[i].kind = "Ok" /\ HasParseableNext(gets[i].value))
        => LET url == LinkOf(gets[i].value)
               endpoint == trim_start_matches_v1(url.path)
           IN  /\ endpoint \in {"apps", "//[bad"}
               /\ LastPairs(url) \subseteq QueryPairs(url)
               /\ (i = Len(gets) /\ ~PagesReturned /\ pc[1] = "pg_get")
                  => /\ current_endpoint = endpoint
                     /\ current_params = LastPairs(url)
               /\ Len(fetched) > i
                  => fetched[i + 1] = [endpoint |-> endpoint,
                                       params |-> LastPairs(url)]

\* C26 witness: the caller passed a platform filter and a limit, the first
\* request carried them, the first page linked to
\* /v1/apps?cursor=p2&limit=1, and the second request went to "apps" with
\* cursor and limit 1 and no filter; the second page's link gave include
\* twice and the third request carried its second value.
C26_FilterDroppedOnSecondPage ==
    /\ Len(fetched) >= 3
    /\ Len(gets) >= 2
    /\ gets[1].kind = "Ok"
    /\ HasParseableNext(gets[1].value)
    /\ <<"filter[platform]", "IOS">> \in fetched[1].params
    /\ <<"limit", "200">> \in fetched[1].params
    /\ fetched[2].endpoint = "apps"
    /\ fetched[2].params = {<<"cursor", "p2">>, <<"limit", "1">>}
    /\ gets[2].kind = "Ok"
    /\ HasParseableNext(gets[2].value)
    /\ gets[2].value.links.next.s = RepeatedKeyLink
    /\ fetched[3].params = {<<"cursor", "p3">>, <<"include", "b">>}

(* ------------------------------- C27 ----------------------------------- *)
\* MaxPages requests have been sent, each page linked to a next one, and the
\* loop is about to ask for one more
StillFollowing ==
    /\ pc[1] = "pg_get"
    /\ ~PagesReturned
    /\ Len(fetched) = MaxPages
    /\ Len(gets) = MaxPages
    /\ \A i \in 1..MaxPages : gets[i].kind = "Ok" /\ HasParseableNext(gets[i].value)

\* C27: get_all_pages goes round its loop again exactly when the fetch
\* succeeded and the page has a parseable links.next, and returns otherwise
\* (a page without next, a failed fetch, an unparseable next); so a call
\* returns once the server sends such a page, and as long as every page has
\* a parseable next the call is still fetching (followed here for MaxPages
\* pages).
C27_TerminatesOnlyWithoutNext ==
    /\ [][ StepFrom(1, "pg_got")
           => /\ pc'[1] \in {"pg_get", "idle"}
              /\ pc'[1] = "pg_get"
                    <=> (result.kind = "Ok" /\ HasParseableNext(result.value))
              /\ pc'[1] = "pg_get" => ~PagesReturned'
              /\ pc'[1] = "idle" => PagesReturned'
       ]_vars
    /\ (op[1] = "get_all_pages") ~> (PagesReturned \/ StillFollowing)

\* C27 witness: a server that links every page to a next one; after MaxPages
\* pages the call has not returned.
C27_CycleOfLinks ==
    /\ StillFollowing
    /\ \A i \in 1..MaxPages : gets[i].value.links.next.s = GoodLink
    /\ Len(all_results) >= MaxPages

(* ------------------------------- C24 ----------------------------------- *)
\* where a caller is while it signs (get_token), has just signed
\* (refresh_token), or has its HTTP call in flight (request)
SlowPoints == {"gt_sign", "rf_now", "rq_send", "rq_handle"}

\* C24: a caller holds the read guard only for the cache test and the write
\* guard only for the replace step; while it signs, and while its HTTP call
\* is in flight, it holds neither; so a caller that is signing or waiting
\* for the network never keeps another caller from taking the read lock.
C24_LockDiscipline ==
    \A p \in Callers :
        /\ p \in readers => pc[p] \in {"gt_check", "iv_check"}
        /\ writer = p => pc[p] \in {"gt_store", "rf_store"}
        /\ pc[p] \in SlowPoints => (p \notin readers /\ writer # p)
        /\ \A q \in Callers \ {p} :
              ( /\ pc[p] \in SlowPoints
                /\ pc[q] = "gt_read"
                /\ writer \in {0, p} )
              => ENABLED GetTokenReadLock(q)

\* C24 witness: caller 1's HTTP call is in flight and caller 2, which came
\* for the token meanwhile, holds the read guard.
C24_ReadDuringHttpCall ==
    /\ pc[1] = "rq_send"
    /\ op[1] = "request"
    /\ pc[2] = "gt_check"
    /\ readers = {2}
    /\ writer = 0

(* ------------------------------- C25 ----------------------------------- *)
\* C25: a call dropped at an await leaves the cache as it was and leaves the
\* caller holding no guard; the cache is empty or holds a complete (token,
\* expiry) pair, and every change of it is one replace step under the write
\* guard; a caller between calls holds no guard; and the calls under way
\* all come to an end whatever any caller drops.
C25_CancellationSafe ==
    /\ [](\A p \in Callers :
            /\ token_cache.kind = "Some"
               => /\ token_cache.token # NoToken
                  /\ token_cache.expiry >= TokenLifetime
            /\ pc[p] = "idle" => (p \notin readers /\ writer # p))
    /\ [][ /\ \A p \in Callers :
                (pc[p] \in {"gt_read", "gt_write", "rf_write", "rq_send",
                            "rq_handle"} /\ pc'[p] = "idle")
                => /\ token_cache' = token_cache
                   /\ p \notin readers'
                   /\ writer' # p
           /\ token_cache' # token_cache
              => \E p \in Callers :
                    /\ pc[p] \in {"gt_store", "rf_store"}
                    /\ writer = p
                    /\ token_cache' = Some(token[p], now[p] + 20 * 60)
       ]_vars
    /\ (\E p \in Callers : pc[p] # "idle") ~> (\A p \in Callers : pc[p] = "idle")

\* C25 witness: a call that had signed its token was dropped before the
\* replace step (the cache is still empty, nothing was returned), and the
\* other caller's get_token is under way.
C25_DroppedAfterSigning ==
    /\ signs = 1
    /\ calls = 2
    /\ token_cache = None
    /\ last = NoRet
    /\ \A p \in Callers : token[p] = NoToken
    /\ \E p \in Callers : pc[p] = "idle" /\ \E q \in Callers \ {p} : pc[q] = "gt_read"
    /\ readers = {}
    /\ writer = 0

(* ------------------------------- C30 ----------------------------------- *)
\* bulk_update has returned
BulkReturned == bulk_result.kind # "none"

\* the fetched localizations have an entry for the locale
Listed(locale) ==
    \E i \in DOMAIN existing : existing[i].attributes.locale = JStr(locale)

\* they have an entry for the locale that carries a string id
ListedWithId(locale) ==
    \E i \in DOMAIN existing :
        /\ existing[i].attributes.locale = JStr(locale)
        /\ existing[i].id.t = "string"

\* the update and create calls made for a locale: update is called with the
\* id of an entry listed for the locale, create with the locale
UpdatesOf(locale) ==
    {i \in 2..Len(bulk_calls) :
        /\ bulk_calls[i].fn = "update"
        /\ \E j \in DOMAIN existing :
              /\ existing[j].attributes.locale = JStr(locale)
              /\ existing[j].id = JStr(bulk_calls[i].arg)}
CreatesOf(locale) ==
    {i \in 2..Len(bulk_calls) :
        bulk_calls[i].fn = "create" /\ bulk_calls[i].arg = locale}

\* the result entries of a locale
EntriesOf(m, locale) == {kv \in m : kv[1] = locale}

\* what the claim says of bulk_update, for a given reading of "the locale is
\* present among the fetched localizations"
BulkContract(Present(_)) ==
    /\ (BulkReturned /\ bulk_result.kind = "Ok")
       => /\ {kv[1] : kv \in bulk_result.results} = bulk_input
          /\ Cardinality(bulk_result.results) = Cardinality(bulk_input)
          /\ Len(bulk_calls) = 1 + Cardinality(bulk_input)
          /\ \A locale \in bulk_input :
                LET o == lookup(bulk_result.results, locale) IN
                IF Present(locale)
                THEN /\ Cardinality(UpdatesOf(locale)) = 1
                     /\ CreatesOf(locale) = {}
                     /\ o.success => o.action = "updated"
                ELSE /\ Cardinality(CreatesOf(locale)) = 1
                     /\ UpdatesOf(locale) = {}
                     /\ o.success => o.action = "created"
    /\ (BulkReturned /\ bulk_result.kind # "Ok")
       => /\ Len(bulk_calls) = 1
          /\ bulk_calls[1].fn = "get_all"
          /\ result.kind = bulk_result.kind
          /\ result.message = bulk_result.message
    /\ (pc[1] = "bu_got" /\ bulk_stage = "get_all" /\ result.kind = "Ok")
       => ENABLED (BulkGot(1) /\ pc'[1] = "bu_next")
    /\ (pc[1] = "bu_next" /\ Len(bulk_calls) > 1)
       => LET o == lookup(bulk_results, bulk_locale) IN
          /\ Cardinality(EntriesOf(bulk_results, bulk_locale)) = 1
          /\ o.success <=> (result.kind = "Ok" /\ get(result.value, "data").t # "absent")
          /\ ~o.success => o.error # <<>>
          /\ ~BulkReturned

\* C30 (as claimed): bulk_update returns Ok with exactly one result entry
\* per input locale; a locale that has an entry among the fetched
\* localizations gets one update call (action "updated"), any other locale
\* one create call (action "created"); a failed update or create is recorded
\* as success=false for its locale and the loop goes on; a failed listing
\* ends the call with that error before any update or create is called.
C30_BulkUpdateAsClaimed == BulkContract(Listed)

\* C30 (amended): the same, where the locales that get an update are those
\* with a fetched entry that has both a string attributes.locale and a
\* string id; a locale whose fetched entry has no string id gets a create.
C30_BulkUpdatePerLocale == BulkContract(ListedWithId)

\* C30 witness: both locales were passed; the listing had en-US with an id
\* and fr-FR without one; the update of en-US failed and is recorded as
\* success=false, and the loop went on to create fr-FR, recorded as created.
C30_FailedUpdateThenCreate ==
    /\ BulkReturned
    /\ bulk_result.kind = "Ok"
    /\ bulk_input = {"en-US", "fr-FR"}
    /\ Len(existing) = 2
    /\ existing[2].id = Absent
    /\ bulk_calls = <<[fn |-> "get_all", arg |-> "app-info-1"],
                      [fn |-> "update", arg |-> "loc-en"],
                      [fn |-> "create", arg |-> "fr-FR"]>>
    /\ ~lookup(bulk_result.results, "en-US").success
    /\ lookup(bulk_result.results, "fr-FR").success
    /\ lookup(bulk_result.results, "fr-FR").action = "created"

====
